---- MODULE Spec2Model ----
(***************************************************************************)
(* Multi-persona messenger: the Supabase store (tables, row-level-security *)
(* policies, triggers and RPC functions of supabase/migrations) and the    *)
(* client code that drives it (ChatView, typingService, presenceService).  *)
(*                                                                         *)
(* Store operations are atomic steps.  A client request travels to the     *)
(* store asynchronously: a handler that does not await a call leaves a     *)
(* request in flight, and requests in flight land in any order.            *)
(***************************************************************************)
EXTENDS Integers, Sequences, FiniteSets, TLC

(* ------------------------------ bounds --------------------------------- *)
\* The clock counts periods of five seconds and runs from 0 to MaxTime.
MaxTime == 1
\* At most MaxMsgs rows are ever inserted into messages.
MaxMsgs == 2
\* At most MaxChannels rows are ever inserted into persona_channels.
MaxChannels == 3
\* At most MaxInFlight requests of the sessions are in flight at a time.
MaxInFlight == 3
\* At most MaxStatusMsgs rows are inserted in the message status specification.
MaxStatusMsgs == 1
\* The clock of the typing specification runs from 0 to MaxTypingTime.
MaxTypingTime == 2
\* At most MaxTypingQueue typing events wait in a session's typing inbox.
MaxTypingQueue == 2
\* At most MaxPresenceInFlight presence upserts are in flight at a time.
MaxPresenceInFlight == 2

(* --------------------------- the fixed world --------------------------- *)
\* A SQL NULL in a timestamptz / uuid column, and a null React state.
NULL == -1

\* profiles: A owns the contact row, B is the contact.
Users == {"A", "B"}
\* The role that is not "authenticated": policies are declared TO
\* authenticated and do not bind it.
ServiceRole == "service_role"

\* contacts(id, user_id, contact_user_id): one row, A's contact entry for B.
Contacts == {"K1"}
contacts == [k \in Contacts |-> [user_id |-> "A", contact_user_id |-> "B"]]

\* user_personas ids.
Personas == {"P1", "P2"}

\* Browser sessions (tabs); every session is signed in as the contact owner.
Clients == {"a1", "a2"}
UserOf(s) == "A"
\* The contact selected in a session's Messenger (props.contact of ChatView).
ContactOf(s) == "K1"

ChannelIds == 1..MaxChannels

VARIABLES
    now,               \* the clock (now() and new Date())
    persona_channels,  \* table: set of rows
    nextChannelId,     \* next fresh persona_channels.id
    messages,          \* table: sequence of rows, messages[i].id = i
    requests,          \* client requests in flight to the store
    persona,           \* per session: props.persona of the mounted ChatView, or "none"
    channelId,         \* per session: ChatView state channelId
    loadPc,            \* per session: position inside loadChannel
    sendPc,            \* per session: position inside handleSendMessage
    inbox,             \* per session: realtime events received, not yet handled
    msgSubs,           \* per session: channel ids with a registered message handler
    msgList,           \* per session: ChatView state messages (ids, in list order)
    inboundSince,      \* history: per channel, inbound inserts since the last reset
    peerSends,         \* history: per channel, sends by the contact since the last reset
    lastOp,            \* history: the most recent write the store was asked for
    openLen,           \* history: per session, Len(messages) when its channel effect ran
    typing_indicators, \* table: set of rows
    typInbox,          \* per session: typing events received, not yet handled
    typSub,            \* per session: channel of typingChannelRef.current, or NULL
    contactTyping,     \* per session: ChatView state contactTyping
    isTyping,          \* per session: ChatView state isTyping
    typingTimer,       \* per session: channel captured by typingTimeoutRef's timer, or NULL
    typingTimeouts,    \* per session: channels with a timer in typingService.typingTimeouts
    staleTimers,       \* per session: channels captured by timers of unmounted ChatViews
    cleanupChannelId,  \* per session: channelId captured by the mount effect's cleanup
    shownUntil,        \* history: per session, expires_at of the event that set contactTyping
    lastTypingEvent,   \* history: the typing event a session's handler ran on last
    user_presence,     \* table: set of rows
    presenceWrites,    \* updatePresence upserts in flight
    heartbeatInterval, \* presenceService.heartbeatInterval is set
    intervalTimers,    \* the number of setInterval timers of the page that are running
    listeners,         \* the page has visibilitychange / beforeunload listeners
    mounted,           \* Messenger is mounted with a signed-in user
    hidden,            \* document.hidden
    session,           \* the page's supabase client holds a signed-in session
    lastPresence,      \* history: the most recent upsert that reached user_presence
    user_personas,     \* table: the ids of the rows
    message_attachments, \* storage bucket: the files uploaded
    newMessage,        \* per session: ChatView state newMessage
    selectedFile,      \* per session: FileUpload state selectedFile, or NoFile
    notificationsEnabled, \* per session: ChatView state notificationsEnabled
    isLocked,          \* per session: ChatView state isLocked
    handlerNotifications, \* per session and channel: notificationsEnabled as the message handler captured it
    permission,        \* Notification.permission
    notified,          \* history: ids of the messages a browser notification was created for
    lastSend           \* history: the most recent run of a send handler and how it ended

chatVars == <<persona_channels, nextChannelId, messages, requests, persona,
              channelId, loadPc, sendPc, inbox, msgSubs, msgList,
              inboundSince, peerSends, lastOp, openLen>>

typingVars == <<typing_indicators, typInbox, typSub, contactTyping, isTyping,
                typingTimer, typingTimeouts, staleTimers, cleanupChannelId,
                shownUntil, lastTypingEvent>>

presenceVars == <<user_presence, presenceWrites, heartbeatInterval,
                  intervalTimers, listeners,
                  mounted, hidden, session, lastPresence>>

viewVars == <<user_personas, message_attachments, newMessage, selectedFile,
              notificationsEnabled, isLocked, handlerNotifications, permission,
              notified, lastSend>>

(* ------------------------------ helpers -------------------------------- *)
\* The row of persona_channels with the given id (the caller knows it exists).
ChannelRow(c) == CHOOSE pc \in persona_channels : pc.id = c

ChannelExists(c) == \E pc \in persona_channels : pc.id = c

\* UPDATE persona_channels SET <column> = <value> WHERE id = c.
UpdateChannel(chs, c, column, value) ==
    {IF pc.id = c THEN [pc EXCEPT ![column] = value] ELSE pc : pc \in chs}

MsgIds == 1..Len(messages)

(* ------------------- row-level security (TO authenticated) ------------- *)
\* EXISTS (SELECT 1 FROM persona_channels pc JOIN contacts c ON c.id =
\* pc.contact_id WHERE pc.id = <c> AND c.user_id = auth.uid())
OwnsChannel(caller, c) ==
    \E pc \in persona_channels :
        pc.id = c /\ contacts[pc.contact_id].user_id = caller

\* "Users can insert own channels"
ChannelInsertPolicy(caller, k) ==
    caller = ServiceRole \/ contacts[k].user_id = caller

\* "Users can read own channels"
ChannelSelectPolicy(caller, pc) ==
    caller = ServiceRole \/ contacts[pc.contact_id].user_id = caller

\* "Users can update own channels"
ChannelUpdatePolicy(caller, c) ==
    caller = ServiceRole \/ OwnsChannel(caller, c)

\* (changed: the contact of the channel's contact row may insert too)
MessageInsertPolicy_participants(caller, c, sender) ==
    \/ caller = ServiceRole
    \/ /\ caller = sender
       /\ \E pc \in persona_channels :
              /\ pc.id = c
              /\ caller \in {contacts[pc.contact_id].user_id,
                             contacts[pc.contact_id].contact_user_id}

\* "Users can insert messages in their channels"
MessageInsertPolicy(caller, c, sender) ==
    caller = ServiceRole \/ (caller = sender /\ OwnsChannel(caller, c))

\* "Users can read messages in their channels"
MessageSelectPolicy(caller, c) ==
    caller = ServiceRole \/ OwnsChannel(caller, c)

\* (changed: every participant of the channel's contact may update a message)
MessageUpdatePolicy_participants(caller, m) ==
    \/ caller = ServiceRole
    \/ caller = m.sender_id
    \/ \E pc \in persona_channels :
           /\ pc.id = m.channel_id
           /\ caller \in {contacts[pc.contact_id].user_id,
                          contacts[pc.contact_id].contact_user_id}

\* "Users can update own messages"
MessageUpdatePolicy(caller, m) ==
    caller = ServiceRole \/ caller = m.sender_id

(* ------------------------- tables: constraints ------------------------- *)
\* (changed: the constraint is not enforced)
UniqueContactPersona_unenforced(chs, k, p) == TRUE

\* persona_channels: UNIQUE(contact_id, persona_id)
UniqueContactPersona(chs, k, p) ==
    ~\E pc \in chs : pc.contact_id = k /\ pc.persona_id = p

\* A fresh persona_channels row with the column defaults.
NewChannelRow(id, k, p) ==
    [id |-> id, contact_id |-> k, persona_id |-> p, last_message_at |-> NULL,
     is_locked |-> FALSE, notification_enabled |-> TRUE, unread_count |-> 0]

\* "Users can delete own personas": every row of user_personas belongs to
\* the one user that has sessions.
PersonaDeletePolicy(caller) ==
    caller = ServiceRole \/ \A s \in Clients : UserOf(s) = caller

\* What a deleted messages row leaves at its index (ids are never reused):
\* a row of no channel and no sender, which no query and no policy matches.
DeletedMessage(m) == [m EXCEPT !.channel_id = NULL, !.sender_id = "none"]

\* A fresh messages row: status DEFAULT 'sent', created_at DEFAULT now().
NewMessageRow(id, c, sender, t) ==
    [id |-> id, channel_id |-> c, sender_id |-> sender, status |-> "sent",
     delivered_at |-> NULL, read_at |-> NULL, created_at |-> t]

(* ----------------------- triggers and RPC functions -------------------- *)
\* SELECT c.user_id INTO channel_owner_id FROM persona_channels pc
\* JOIN contacts c ON c.id = pc.contact_id WHERE pc.id = NEW.channel_id
ChannelOwner(chs, c) ==
    contacts[(CHOOSE pc \in chs : pc.id = c).contact_id].user_id

\* (changed: the sender is not compared with the owner)
increment_unread_count_any_sender(chs, new) ==
    UpdateChannel(chs, new.channel_id, "unread_count",
        (CHOOSE pc \in chs : pc.id = new.channel_id).unread_count + 1)

\* AFTER INSERT ON messages FOR EACH ROW (new is the row NEW): the persona_channels
\* table after the trigger.
increment_unread_count(chs, new) ==
    IF new.sender_id /= ChannelOwner(chs, new.channel_id)
    THEN UpdateChannel(chs, new.channel_id, "unread_count",
             (CHOOSE pc \in chs : pc.id = new.channel_id).unread_count + 1)
    ELSE chs

\* (changed: the counter is decremented by one)
reset_unread_count_decrement(chs, p_channel_id) ==
    IF \E pc \in chs : pc.id = p_channel_id /\ pc.unread_count > 0
    THEN UpdateChannel(chs, p_channel_id, "unread_count",
             (CHOOSE pc \in chs : pc.id = p_channel_id).unread_count - 1)
    ELSE chs

\* reset_unread_count(p_channel_id): the new persona_channels table.
reset_unread_count(chs, p_channel_id) ==
    UpdateChannel(chs, p_channel_id, "unread_count", 0)

\* (changed: rows that are already read are updated again)
mark_messages_as_read_again(msgs, p_channel_id, p_user_id, t) ==
    [i \in 1..Len(msgs) |->
        IF /\ msgs[i].channel_id = p_channel_id
           /\ msgs[i].sender_id /= p_user_id
        THEN [msgs[i] EXCEPT !.status = "read", !.read_at = t]
        ELSE msgs[i]]

\* (changed: the channel is not compared)
mark_messages_as_read_any_channel(msgs, p_channel_id, p_user_id, t) ==
    [i \in 1..Len(msgs) |->
        IF /\ msgs[i].sender_id /= p_user_id
           /\ msgs[i].status /= "read"
        THEN [msgs[i] EXCEPT !.status = "read", !.read_at = t]
        ELSE msgs[i]]

\* (changed: only the first matching row is updated)
mark_messages_as_read_first(msgs, p_channel_id, p_user_id, t) ==
    [i \in 1..Len(msgs) |->
        IF /\ msgs[i].channel_id = p_channel_id
           /\ msgs[i].sender_id /= p_user_id
           /\ msgs[i].status /= "read"
           /\ \A j \in 1..(i - 1) :
                  ~(/\ msgs[j].channel_id = p_channel_id
                    /\ msgs[j].sender_id /= p_user_id
                    /\ msgs[j].status /= "read")
        THEN [msgs[i] EXCEPT !.status = "read", !.read_at = t]
        ELSE msgs[i]]

\* mark_messages_as_read(p_channel_id, p_user_id) run at time t: the new
\* messages table.
mark_messages_as_read(msgs, p_channel_id, p_user_id, t) ==
    [i \in 1..Len(msgs) |->
        IF /\ msgs[i].channel_id = p_channel_id
           /\ msgs[i].sender_id /= p_user_id
           /\ msgs[i].status /= "read"
        THEN [msgs[i] EXCEPT !.status = "read", !.read_at = t]
        ELSE msgs[i]]

\* ChatView.markMessageAsDelivered's UPDATE messages SET status = 'delivered',
\* delivered_at = ts WHERE id = messageId, as the store runs it for caller:
\* rows the update policy hides from the caller are not touched.
UpdateDelivered(msgs, caller, messageId, ts) ==
    [i \in 1..Len(msgs) |->
        IF msgs[i].id = messageId /\ MessageUpdatePolicy(caller, msgs[i])
        THEN [msgs[i] EXCEPT !.status = "delivered", !.delivered_at = ts]
        ELSE msgs[i]]

\* handleSendMessage / handleSendFile / handleSendGif's UPDATE
\* persona_channels SET last_message_at = ts WHERE id = channelId.
UpdateLastMessageAt(chs, caller, c, ts) ==
    IF ChannelUpdatePolicy(caller, c)
    THEN UpdateChannel(chs, c, "last_message_at", ts)
    ELSE chs

(* ------------------------------ realtime ------------------------------- *)
\* An INSERT on messages is sent to every session with a handler registered
\* for the row's channel, if the session's user may select the row.
PublishInsert(ib, m) ==
    [s \in Clients |->
        IF m.channel_id \in msgSubs[s] /\ MessageSelectPolicy(UserOf(s), m.channel_id)
        THEN Append(ib[s], [id |-> m.id, sender_id |-> m.sender_id,
                            channel_id |-> m.channel_id])
        ELSE ib[s]]

(* --------------------------- requests in flight ------------------------ *)
Req(kind, s, c, m, ts, handler) ==
    [kind |-> kind, client |-> s, channel |-> c, msg |-> m, ts |-> ts,
     handler |-> handler]

\* The effect on [channelId]: loadMessages(); subscribeToMessages();
\* subscribeToTypingIndicators(); markMessagesAsRead(); resetUnreadCount().
\* None is awaited: the three store calls leave in flight together.
ChannelEffectRequests(s, c) ==
    {Req("loadMessages", s, c, NULL, NULL, "effect"),
     Req("markRead", s, c, NULL, NULL, "effect"),
     Req("reset", s, c, NULL, NULL, "effect")}

(* -------------------------------- Init --------------------------------- *)
NoTypingEvent == [client |-> "none", eventType |-> "none", user_id |-> "none"]

NoOp == [op |-> "none", channel |-> NULL, msg |-> NULL, again |-> FALSE]

\* The record of a write the store is asked for; again tells that the write
\* before it was the same one.
Op(op, c, m) ==
    [op |-> op, channel |-> c, msg |-> m,
     again |-> lastOp.op = op /\ lastOp.channel = c /\ lastOp.msg = m]

\* The values of the message input: empty, whitespace only, and a text.
Texts == {"", " ", "x"}

\* The values typed where whitespace plays no part.
Typed == {"", "x"}

\* (changed: the text is not trimmed)
Trim_none(value) == value

\* String.prototype.trim() on Texts.
Trim(value) == IF value = " " THEN "" ELSE value

\* Notification.permission is kept by the browser per origin.
Permissions == {"default", "granted", "denied"}

\* The value a send handler's record has before any send.
NoSend == [client |-> "none", handler |-> "none", outcome |-> "none"]

\* FileUpload state selectedFile = null.
NoFile == [size |-> 0, type |-> "none"]

\* Every persona of the user has its user_personas row, the bucket is empty,
\* and the component states have their useState() initial values.
ViewInit(perm) ==
    /\ user_personas = Personas
    /\ message_attachments = {}
    /\ newMessage = [s \in Clients |-> ""]
    /\ selectedFile = [s \in Clients |-> NoFile]
    /\ notificationsEnabled = [s \in Clients |-> TRUE]
    /\ isLocked = [s \in Clients |-> FALSE]
    /\ handlerNotifications = [s \in Clients |-> [c \in ChannelIds |-> TRUE]]
    /\ permission = perm
    /\ notified = {}
    /\ lastSend = NoSend

ChatInit(chs) ==
    /\ persona_channels = chs
    /\ nextChannelId = Cardinality(chs) + 1
    /\ messages = <<>>
    /\ requests = {}
    /\ persona = [s \in Clients |-> "none"]
    /\ channelId = [s \in Clients |-> NULL]
    /\ loadPc = [s \in Clients |-> "idle"]
    /\ sendPc = [s \in Clients |-> "idle"]
    /\ inbox = [s \in Clients |-> <<>>]
    /\ msgSubs = [s \in Clients |-> {}]
    /\ msgList = [s \in Clients |-> <<>>]
    /\ inboundSince = [c \in ChannelIds |-> 0]
    /\ peerSends = [c \in ChannelIds |-> 0]
    /\ lastOp = NoOp
    /\ openLen = [s \in Clients |-> 0]
    /\ typing_indicators = {}
    /\ typInbox = [s \in Clients |-> <<>>]
    /\ typSub = [s \in Clients |-> NULL]
    /\ contactTyping = [s \in Clients |-> FALSE]
    /\ isTyping = [s \in Clients |-> FALSE]
    /\ typingTimer = [s \in Clients |-> NULL]
    /\ typingTimeouts = [s \in Clients |-> {}]
    /\ staleTimers = [s \in Clients |-> {}]
    /\ cleanupChannelId = [s \in Clients |-> NULL]
    /\ shownUntil = [s \in Clients |-> NULL]
    /\ lastTypingEvent = NoTypingEvent

(* ------------------- ChatView: mount effect and loadChannel ------------ *)
\* The cleanup returned by the effect on [contact.id, persona.id]: the typing
\* subscription in typingChannelRef is removed, and cleanupTyping runs for the
\* channelId the effect's render had (the closure keeps that value).
EffectCleanup(s) ==
    /\ typSub' = [typSub EXCEPT ![s] = NULL]
    /\ typInbox' = [typInbox EXCEPT ![s] = <<>>]
    /\ IF cleanupChannelId[s] /= NULL
       THEN /\ typingTimeouts' =
                   [typingTimeouts EXCEPT ![s] = @ \ {cleanupChannelId[s]}]
            /\ requests' = requests \cup
                   {Req("typingDelete", s, cleanupChannelId[s], NULL, NULL,
                        "cleanupTyping")}
            /\ Cardinality(requests') <= MaxInFlight
       ELSE UNCHANGED <<typingTimeouts, requests>>

\* Messenger renders ChatView with persona p (first mount, or a persona
\* switch): the previous run of the effect on [contact.id, persona.id] is
\* cleaned up and the effect calls loadChannel(), which sends the select.
\* One loadChannel per session at a time.
SelectPersona(s, p) ==
    /\ persona[s] /= p
    /\ loadPc[s] = "idle"
    /\ IF persona[s] /= "none"
       THEN EffectCleanup(s)
       ELSE UNCHANGED <<typSub, typInbox, typingTimeouts, requests>>
    /\ cleanupChannelId' = [cleanupChannelId EXCEPT ![s] = channelId[s]]
    /\ persona' = [persona EXCEPT ![s] = p]
    /\ loadPc' = [loadPc EXCEPT ![s] = "select"]
    /\ UNCHANGED <<now, viewVars, presenceVars, openLen, persona_channels, nextChannelId,
                   messages, channelId, sendPc, inbox, msgSubs, msgList,
                   inboundSince, peerSends, lastOp, typing_indicators,
                   contactTyping, isTyping, typingTimer, staleTimers,
                   shownUntil, lastTypingEvent>>

\* Messenger stops rendering ChatView (sign-out): the effect is cleaned up
\* and the component's state is discarded.  The message subscription stays:
\* subscribeToMessages returns its removeChannel, and the effect that calls
\* it drops that return value.  A timer pending in typingTimeoutRef is not
\* cleared: it outlives the component.
Unmount(s) ==
    /\ persona[s] /= "none"
    /\ loadPc[s] = "idle"
    /\ sendPc[s] = "idle"
    /\ EffectCleanup(s)
    /\ staleTimers' = [staleTimers EXCEPT ![s] =
                          IF typingTimer[s] /= NULL THEN @ \cup {typingTimer[s]} ELSE @]
    /\ typingTimer' = [typingTimer EXCEPT ![s] = NULL]
    /\ cleanupChannelId' = [cleanupChannelId EXCEPT ![s] = NULL]
    /\ persona' = [persona EXCEPT ![s] = "none"]
    /\ channelId' = [channelId EXCEPT ![s] = NULL]
    /\ msgList' = [msgList EXCEPT ![s] = <<>>]
    /\ contactTyping' = [contactTyping EXCEPT ![s] = FALSE]
    /\ shownUntil' = [shownUntil EXCEPT ![s] = NULL]
    /\ UNCHANGED lastTypingEvent
    /\ isTyping' = [isTyping EXCEPT ![s] = FALSE]
    /\ newMessage' = [newMessage EXCEPT ![s] = ""]
    /\ selectedFile' = [selectedFile EXCEPT ![s] = NoFile]
    /\ notificationsEnabled' = [notificationsEnabled EXCEPT ![s] = TRUE]
    /\ isLocked' = [isLocked EXCEPT ![s] = FALSE]
    /\ UNCHANGED <<user_personas, message_attachments, handlerNotifications,
                   permission, notified, lastSend>>
    /\ UNCHANGED <<now, presenceVars, openLen, persona_channels, nextChannelId,
                   messages, loadPc, sendPc, inbox, msgSubs, inboundSince,
                   peerSends, lastOp, typing_indicators>>

\* if (channel) { setChannelId(channel.id); ... } setLoading(false), and the
\* effect on [channelId] that a changed channelId runs: loadMessages,
\* subscribeToMessages, subscribeToTypingIndicators, markMessagesAsRead,
\* resetUnreadCount.
ChannelResolved(s, c, is_locked, notification_enabled) ==
    /\ channelId' = [channelId EXCEPT ![s] = c]
    /\ isLocked' = [isLocked EXCEPT ![s] = is_locked]
    /\ notificationsEnabled' =
           [notificationsEnabled EXCEPT ![s] = notification_enabled]
    /\ loadPc' = [loadPc EXCEPT ![s] = "idle"]
    /\ IF c /= channelId[s]
       THEN /\ requests' = requests \cup ChannelEffectRequests(s, c)
            /\ Cardinality(requests') <= MaxInFlight
            /\ msgSubs' = [msgSubs EXCEPT ![s] = @ \cup {c}]
            /\ \E captured \in {notificationsEnabled[s], notification_enabled} :
                   handlerNotifications' =
                       [handlerNotifications EXCEPT ![s][c] = captured]
            /\ typSub' = [typSub EXCEPT ![s] = c]
            /\ openLen' = [openLen EXCEPT ![s] = Len(messages)]
       ELSE UNCHANGED <<requests, msgSubs, handlerNotifications, typSub,
                        openLen>>
    /\ UNCHANGED <<user_personas, message_attachments, newMessage,
                   selectedFile, permission, notified, lastSend>>

\* The select ... maybeSingle() runs and loadChannel continues: with exactly
\* one visible row the channel is resolved, otherwise data is null and the
\* insert is sent.
LoadChannelSelect(s) ==
    /\ loadPc[s] = "select"
    /\ LET found == {pc \in persona_channels :
                        /\ pc.contact_id = ContactOf(s)
                        /\ pc.persona_id = persona[s]
                        /\ ChannelSelectPolicy(UserOf(s), pc)}
       IN  IF Cardinality(found) = 1
           THEN LET channel == CHOOSE pc \in found : TRUE
                IN  ChannelResolved(s, channel.id, channel.is_locked,
                                    channel.notification_enabled)
           ELSE /\ loadPc' = [loadPc EXCEPT ![s] = "insert"]
                /\ UNCHANGED <<channelId, requests, msgSubs, typSub, openLen>>
                /\ UNCHANGED viewVars
    /\ UNCHANGED <<now, presenceVars, persona_channels, nextChannelId, messages,
                   persona, sendPc, inbox, msgList, inboundSince, peerSends,
                   lastOp, typing_indicators, typInbox, contactTyping, isTyping,
                   typingTimer, typingTimeouts, staleTimers, cleanupChannelId,
                   shownUntil, lastTypingEvent>>

\* The insert ... select().single() runs and loadChannel continues: a row
\* that passes the insert policy and the unique constraint is stored and
\* resolved; otherwise newChannel is null and nothing is set.
LoadChannelInsert(s) ==
    /\ loadPc[s] = "insert"
    /\ nextChannelId <= MaxChannels
    /\ IF /\ ChannelInsertPolicy(UserOf(s), ContactOf(s))
          /\ persona[s] \in user_personas
          /\ UniqueContactPersona(persona_channels, ContactOf(s), persona[s])
       THEN /\ persona_channels' = persona_channels \cup
                   {NewChannelRow(nextChannelId, ContactOf(s), persona[s])}
            /\ nextChannelId' = nextChannelId + 1
            /\ LET newChannel == NewChannelRow(nextChannelId, ContactOf(s),
                                            persona[s])
               IN  ChannelResolved(s, newChannel.id, newChannel.is_locked,
                                   newChannel.notification_enabled)
            /\ lastOp' = Op("insertChannel", nextChannelId, NULL)
       ELSE /\ loadPc' = [loadPc EXCEPT ![s] = "idle"]
            /\ lastOp' = Op("insertChannelFailed", NULL, NULL)
            /\ UNCHANGED <<persona_channels, nextChannelId, channelId, requests,
                           msgSubs, typSub, openLen>>
            /\ UNCHANGED viewVars
    /\ UNCHANGED <<now, presenceVars, messages, persona, sendPc, inbox, msgList,
                   inboundSince, peerSends, typing_indicators, typInbox,
                   contactTyping, isTyping, typingTimer, typingTimeouts,
                   staleTimers, cleanupChannelId, shownUntil, lastTypingEvent>>

(* --------------------------- messages: insert -------------------------- *)
\* INSERT INTO messages by caller: the foreign key and the insert policy are
\* checked, the row is stored with status 'sent', the trigger runs in the
\* same transaction and the INSERT event is published.
StoreInsertMessage(caller, c, sender) ==
    IF ChannelExists(c) /\ MessageInsertPolicy(caller, c, sender)
    THEN LET row == NewMessageRow(Len(messages) + 1, c, sender, now)
         IN  /\ messages' = Append(messages, row)
             /\ persona_channels' = increment_unread_count(persona_channels, row)
             /\ inbox' = PublishInsert(inbox, row)
             /\ inboundSince' =
                    IF sender /= contacts[ChannelRow(c).contact_id].user_id
                    THEN [inboundSince EXCEPT ![c] = @ + 1]
                    ELSE inboundSince
             /\ lastOp' = Op("insertMessage", c, row.id)
    ELSE /\ lastOp' = Op("insertMessageFailed", c, NULL)
         /\ UNCHANGED <<messages, persona_channels, inbox, inboundSince>>

\* The send handlers: handleSendMessage (text) and handleSendFile /
\* handleSendGif, which differ from it only in not calling cleanupTyping.
SendHandlers == {"handleSendMessage", "handleSendFile"}

\* A send handler h, first await: the message insert.  The result is not
\* inspected.
InsertMessage(s, h) ==
    /\ Len(messages) < MaxMsgs
    /\ StoreInsertMessage(UserOf(s), channelId[s], UserOf(s))
    /\ sendPc' = [sendPc EXCEPT ![s] = h]
    /\ lastSend' = [client |-> s, handler |-> h,
                    outcome |-> IF Len(messages') > Len(messages)
                                THEN "inserted" ELSE "failed"]
    /\ UNCHANGED <<user_personas, newMessage, notificationsEnabled, isLocked,
                   handlerNotifications, permission, notified>>
    /\ UNCHANGED <<now, typingVars, presenceVars, openLen, nextChannelId, requests,
                   persona, channelId, loadPc, msgSubs, msgList, peerSends>>

\* A send handler h is called and passes its first line: channelId is set
\* and, for handleSendMessage, newMessage.trim() is not empty.
SendInsert(s, h) ==
    /\ channelId[s] /= NULL
    /\ h = "handleSendMessage" => Trim(newMessage[s]) /= ""
    /\ sendPc[s] = "idle"
    /\ InsertMessage(s, h)
    /\ UNCHANGED <<message_attachments, selectedFile>>

\* A send handler h is called and passes its first line, and its insert
\* is not stored for a reason outside the tables (the request does not get
\* through, or the API answers with an error status): supabase-js resolves
\* the await with { error }, which the handler does not read, and the
\* handler goes on.
SendInsertFails(s, h) ==
    /\ channelId[s] /= NULL
    /\ h = "handleSendMessage" => Trim(newMessage[s]) /= ""
    /\ sendPc[s] = "idle"
    /\ sendPc' = [sendPc EXCEPT ![s] = h]
    /\ lastSend' = [client |-> s, handler |-> h, outcome |-> "failed"]
    /\ lastOp' = Op("insertMessageFailed", channelId[s], NULL)
    /\ UNCHANGED <<user_personas, message_attachments, newMessage,
                   selectedFile, notificationsEnabled, isLocked,
                   handlerNotifications, permission, notified>>
    /\ UNCHANGED <<now, typingVars, presenceVars, persona_channels,
                   nextChannelId, messages, requests, persona, channelId,
                   loadPc, inbox, msgSubs, msgList, inboundSince, peerSends,
                   openLen>>

\* handleSendMessage returns at its first line: newMessage.trim() is empty
\* (channelId is set).
SendReturn(s) ==
    /\ persona[s] /= "none"
    /\ channelId[s] /= NULL
    /\ sendPc[s] = "idle"
    /\ Trim(newMessage[s]) = ""
    /\ lastSend' = [client |-> s, handler |-> "handleSendMessage",
                    outcome |-> "returned"]
    /\ UNCHANGED <<user_personas, message_attachments, newMessage,
                   selectedFile, notificationsEnabled, isLocked, handlerNotifications,
                   permission, notified>>
    /\ UNCHANGED <<now, chatVars, typingVars, presenceVars>>

(* ------------------------ FileUpload / fileService -------------------- *)
\* MAX_FILE_SIZE, in MB.
MAX_FILE_SIZE == 50

\* Of ALLOWED_TYPES, one member.
ALLOWED_TYPES == {"image/png"}

\* The files a user can pick: sizes in MB at and above the limit, and a
\* type inside and one outside the allowed list.
Files == [size : {MAX_FILE_SIZE, MAX_FILE_SIZE + 1},
          type : {"image/png", "text/html"}]

\* validateFile(file).valid
validateFile(file) ==
    /\ ~(file.size > MAX_FILE_SIZE)
    /\ file.type \in ALLOWED_TYPES

\* handleFileSelect / handleDrop with a file: an invalid file sets the error
\* and leaves selectedFile as it was.
HandleFileSelect(s, file) ==
    /\ persona[s] /= "none"
    /\ channelId[s] /= NULL
    /\ IF validateFile(file)
       THEN /\ selectedFile' = [selectedFile EXCEPT ![s] = file]
            /\ UNCHANGED lastSend
       ELSE /\ lastSend' = [client |-> s, handler |-> "handleFileSelect",
                            outcome |-> "rejected"]
            /\ UNCHANGED selectedFile
    /\ UNCHANGED <<user_personas, message_attachments, newMessage,
                   notificationsEnabled, isLocked, handlerNotifications, permission,
                   notified>>
    /\ UNCHANGED <<now, chatVars, typingVars, presenceVars>>

\* handleUpload with a selected file: uploadFile validates the file again
\* and stores it in the bucket under a fresh path of the channel.
HandleUpload(s) ==
    /\ persona[s] /= "none"
    /\ channelId[s] /= NULL
    /\ selectedFile[s] /= NoFile
    /\ sendPc[s] = "idle"
    /\ IF validateFile(selectedFile[s])
       THEN /\ message_attachments' = message_attachments \cup
                   {[channel_id |-> channelId[s], file |-> selectedFile[s]]}
            /\ sendPc' = [sendPc EXCEPT ![s] = "onFileUploaded"]
       ELSE UNCHANGED <<message_attachments, sendPc>>
    /\ UNCHANGED <<user_personas, newMessage, selectedFile,
                   notificationsEnabled, isLocked, handlerNotifications, permission,
                   notified, lastSend>>
    /\ UNCHANGED <<now, typingVars, presenceVars, persona_channels,
                   nextChannelId, messages, requests, persona, channelId,
                   loadPc, inbox, msgSubs, msgList, inboundSince, peerSends,
                   lastOp, openLen>>

\* uploadFile has resolved: onFileUploaded(...) calls handleSendFile, which
\* sends its insert, and handleUpload resets selectedFile.
UploadResolved(s) ==
    /\ sendPc[s] = "onFileUploaded"
    /\ channelId[s] /= NULL
    /\ InsertMessage(s, "handleSendFile")
    /\ selectedFile' = [selectedFile EXCEPT ![s] = NoFile]
    /\ UNCHANGED message_attachments

\* ... second await: the last_message_at update leaves with the session's
\* new Date().
SendUpdate(s) ==
    /\ sendPc[s] \in SendHandlers
    /\ requests' = requests \cup
           {Req("lastMessageAt", s, channelId[s], NULL, now, sendPc[s])}
    /\ Cardinality(requests') <= MaxInFlight
    /\ sendPc' = [sendPc EXCEPT ![s] = "idle"]
    /\ UNCHANGED lastOp
    /\ UNCHANGED <<now, viewVars, typingVars, presenceVars, openLen, persona_channels,
                   nextChannelId, messages, persona, channelId, loadPc, inbox,
                   msgSubs, msgList, inboundSince, peerSends>>

\* The contact (contacts.contact_user_id), signed in, sends into channel c
\* through the same insert.
PeerSend(c) ==
    /\ ChannelExists(c)
    /\ Len(messages) < MaxMsgs
    /\ peerSends[c] < MaxMsgs
    /\ LET peer == contacts[ChannelRow(c).contact_id].contact_user_id
       IN  StoreInsertMessage(peer, c, peer)
    /\ peerSends' = [peerSends EXCEPT ![c] = @ + 1]
    /\ UNCHANGED <<now, viewVars, typingVars, presenceVars, openLen, nextChannelId, requests, persona, channelId, loadPc,
                   sendPc, msgSubs, msgList>>

\* A row written by the service role (no policy applies) on behalf of sender.
ServiceInsert(c, sender) ==
    /\ ChannelExists(c)
    /\ Len(messages) < MaxMsgs
    /\ StoreInsertMessage(ServiceRole, c, sender)
    /\ peerSends' =
           IF sender = contacts[ChannelRow(c).contact_id].contact_user_id
           THEN [peerSends EXCEPT ![c] = @ + 1]
           ELSE peerSends
    /\ UNCHANGED <<now, viewVars, typingVars, presenceVars, openLen, nextChannelId, requests, persona, channelId, loadPc,
                   sendPc, msgSubs, msgList>>

(* ----------------------- requests reaching the store ------------------ *)
\* The results select('*').eq('channel_id', c).order('created_at') can
\* return: every order of the channel's rows that ascends in created_at.
OrderedMessages(c) ==
    LET ids == {i \in MsgIds : messages[i].channel_id = c}
        n == Cardinality(ids)
    IN  {q \in [1..n -> ids] :
            /\ \A i, j \in 1..n : i /= j => q[i] /= q[j]
            /\ \A i, j \in 1..n : i < j =>
                   messages[q[i]].created_at <= messages[q[j]].created_at}

\* loadMessages: the select runs and setMessages(data) replaces the list.
LandLoadMessages(r) ==
    /\ r \in requests /\ r.kind = "loadMessages"
    /\ requests' = requests \ {r}
    /\ \E q \in OrderedMessages(r.channel) :
           msgList' = [msgList EXCEPT ![r.client] =
                          IF MessageSelectPolicy(UserOf(r.client), r.channel)
                          THEN q ELSE <<>>]
    /\ UNCHANGED lastOp
    /\ UNCHANGED <<now, viewVars, typingVars, presenceVars, openLen, persona_channels, nextChannelId, messages, persona,
                   channelId, loadPc, sendPc, inbox, msgSubs, inboundSince,
                   peerSends>>

\* markMessagesAsRead: rpc('mark_messages_as_read', {channelId, user.id}).
LandMarkRead(r) ==
    /\ r \in requests /\ r.kind = "markRead"
    /\ requests' = requests \ {r}
    /\ messages' = mark_messages_as_read(messages, r.channel, UserOf(r.client), now)
    /\ lastOp' = Op("markRead", r.channel, NULL)
    /\ UNCHANGED <<now, viewVars, typingVars, presenceVars, openLen, persona_channels, nextChannelId, persona, channelId,
                   loadPc, sendPc, inbox, msgSubs, msgList, inboundSince,
                   peerSends>>

\* resetUnreadCount: rpc('reset_unread_count', {channelId}).
LandReset(r) ==
    /\ r \in requests /\ r.kind = "reset"
    /\ requests' = requests \ {r}
    /\ persona_channels' = reset_unread_count(persona_channels, r.channel)
    /\ inboundSince' = [inboundSince EXCEPT ![r.channel] = 0]
    /\ peerSends' = [peerSends EXCEPT ![r.channel] = 0]
    /\ lastOp' = Op("reset", r.channel, NULL)
    /\ UNCHANGED <<now, viewVars, typingVars, presenceVars, openLen, nextChannelId, messages, persona, channelId, loadPc,
                   sendPc, inbox, msgSubs, msgList>>

\* A signed-in user that owns no contact and is nobody's contact.
Stranger == "C"

\* The users whose sessions can call the API.
Callers == Users \cup {Stranger}

\* The two participants of channel c: the owner of its contact and the
\* contact's user.
Participants(c) ==
    {contacts[ChannelRow(c).contact_id].user_id,
     contacts[ChannelRow(c).contact_id].contact_user_id}

\* from('messages').insert({channel_id: c, sender_id: sender, ...}) sent by
\* caller over the API.
ApiInsertMessage(caller, c, sender) ==
    /\ Len(messages) < MaxMsgs
    /\ StoreInsertMessage(caller, c, sender)
    /\ UNCHANGED <<now, viewVars, typingVars, presenceVars, openLen,
                   nextChannelId, requests, persona, channelId, loadPc,
                   sendPc, msgSubs, msgList, peerSends>>

\* from('messages').select('*').eq('channel_id', c) sent by caller over the
\* API: the ids of the rows the select policy lets through.
SelectMessages(caller, c) ==
    {i \in MsgIds : messages[i].channel_id = c /\ MessageSelectPolicy(caller, c)}

\* rpc('reset_unread_count', {p_channel_id: c}) sent by caller over the API.
\* The function is SECURITY DEFINER and does not read auth.uid().
RpcResetUnreadCount(caller, c) ==
    /\ ChannelExists(c)
    /\ persona_channels' = reset_unread_count(persona_channels, c)
    /\ inboundSince' = [inboundSince EXCEPT ![c] = 0]
    /\ peerSends' = [peerSends EXCEPT ![c] = 0]
    /\ lastOp' = Op("reset", c, NULL)
    /\ UNCHANGED <<now, viewVars, typingVars, presenceVars, openLen,
                   nextChannelId, messages, requests, persona, channelId,
                   loadPc, sendPc, inbox, msgSubs, msgList>>

\* rpc('mark_messages_as_read', {p_channel_id: c, p_user_id}) sent by caller
\* over the API.  The function is SECURITY DEFINER and reads neither
\* auth.uid() nor the channel's contact.
RpcMarkMessagesAsRead(caller, c, p_user_id) ==
    /\ ChannelExists(c)
    /\ messages' = mark_messages_as_read(messages, c, p_user_id, now)
    /\ lastOp' = Op("markRead", c, NULL)
    /\ UNCHANGED <<now, viewVars, typingVars, presenceVars, openLen,
                   persona_channels, nextChannelId, requests, persona,
                   channelId, loadPc, sendPc, inbox, msgSubs, msgList,
                   inboundSince, peerSends>>

(* ------------------- contact_unread_counts / loadPresenceData --------- *)
\* (changed: the aggregate counts the joined rows)
SUM_count(rows) == Cardinality(rows)

\* SUM(pc.unread_count) over a non-empty group of joined rows.
RECURSIVE SUM(_)
SUM(rows) ==
    IF rows = {} THEN 0
    ELSE LET pc == CHOOSE x \in rows : TRUE
         IN  pc.unread_count + SUM(rows \ {pc})

\* SELECT c.id, c.user_id, SUM(pc.unread_count) FROM contacts c LEFT JOIN
\* persona_channels pc ON pc.contact_id = c.id GROUP BY c.id, c.user_id: a
\* contact without channels is joined to one row of NULLs and its SUM is
\* NULL.
contact_unread_counts ==
    {LET joined == {pc \in persona_channels : pc.contact_id = k}
     IN  [contact_id |-> k, user_id |-> contacts[k].user_id,
          total_unread |-> IF joined = {} THEN NULL ELSE SUM(joined)]
     : k \in Contacts}

\* loadPresenceData: .eq('user_id', user.id), then for a contact
\* unreadMap.get(contact.id) || 0.
unread_count(userId, k) ==
    LET unreadData == {u \in contact_unread_counts : u.user_id = userId}
        found == {u \in unreadData : u.contact_id = k}
    IN  IF found = {} THEN 0
        ELSE LET total == (CHOOSE u \in found : TRUE).total_unread
             IN  IF total = NULL \/ total = 0 THEN 0 ELSE total

\* markMessageAsDelivered's update reaches the store.
LandDelivered(r) ==
    /\ r \in requests /\ r.kind = "delivered"
    /\ requests' = requests \ {r}
    /\ messages' = UpdateDelivered(messages, UserOf(r.client), r.msg, r.ts)
    /\ lastOp' = Op("delivered", NULL, r.msg)
    /\ UNCHANGED <<now, viewVars, typingVars, presenceVars, openLen, persona_channels, nextChannelId, persona, channelId,
                   loadPc, sendPc, inbox, msgSubs, msgList, inboundSince,
                   peerSends>>

\* The last_message_at update of a send reaches the store, and the handler
\* that awaited it continues: handleSendMessage ends with
\* cleanupTyping(channelId, user.id).
LandLastMessageAt(r) ==
    /\ r \in requests /\ r.kind = "lastMessageAt"
    /\ persona_channels' =
           UpdateLastMessageAt(persona_channels, UserOf(r.client), r.channel, r.ts)
    /\ lastOp' = Op("lastMessageAt", r.channel, NULL)
    /\ IF r.handler = "handleSendMessage"
       THEN /\ requests' = (requests \ {r}) \cup
                   {Req("typingDelete", r.client, r.channel, NULL, NULL,
                        "cleanupTyping")}
            /\ typingTimeouts' =
                   [typingTimeouts EXCEPT ![r.client] = @ \ {r.channel}]
       ELSE /\ requests' = requests \ {r}
            /\ UNCHANGED typingTimeouts
    /\ newMessage' = IF r.handler = "handleSendMessage"
                     THEN [newMessage EXCEPT ![r.client] = ""]
                     ELSE newMessage
    /\ UNCHANGED <<user_personas, message_attachments, selectedFile,
                   notificationsEnabled, isLocked, handlerNotifications, permission,
                   notified, lastSend>>
    /\ UNCHANGED <<now, presenceVars, openLen, nextChannelId, messages, persona,
                   channelId, loadPc, sendPc, inbox, msgSubs, msgList,
                   inboundSince, peerSends, typing_indicators, typInbox, typSub,
                   contactTyping, isTyping, typingTimer, staleTimers,
                   cleanupChannelId, shownUntil, lastTypingEvent>>

(* ------------- ChatView: the header toggles, the INSERT handler -------- *)
\* The updates the two toggle buttons send.
ToggleKinds == {"lockOn", "lockOff", "notificationsOn", "notificationsOff"}

\* (changed: the update has no WHERE clause)
UpdateFlag_every_row(chs, caller, c, column, value) ==
    {[pc EXCEPT ![column] = value] : pc \in chs}

\* UPDATE persona_channels SET <column> = <value> WHERE id = c, as the store
\* runs it for caller: a row the update policy hides is not touched.
UpdateFlag(chs, caller, c, column, value) ==
    IF ChannelUpdatePolicy(caller, c)
    THEN UpdateChannel(chs, c, column, value)
    ELSE chs

\* A toggle button of the header is clicked (the header is rendered once
\* loading is false): the update of the flag to newState leaves for the
\* channel the view holds.
Toggle(s, kind, handler) ==
    /\ persona[s] /= "none"
    /\ loadPc[s] = "idle"
    /\ channelId[s] /= NULL
    /\ requests' = requests \cup {Req(kind, s, channelId[s], NULL, NULL, handler)}
    /\ Cardinality(requests') <= MaxInFlight
    /\ UNCHANGED <<now, viewVars, typingVars, presenceVars, persona_channels,
                   nextChannelId, messages, persona, channelId, loadPc,
                   sendPc, inbox, msgSubs, msgList, inboundSince, peerSends,
                   lastOp, openLen>>

\* toggleLock: newLockState = !isLocked.
ToggleLock(s) ==
    Toggle(s, IF isLocked[s] THEN "lockOff" ELSE "lockOn", "toggleLock")

\* toggleNotifications: newNotificationState = !notificationsEnabled.
ToggleNotifications(s) ==
    Toggle(s, IF notificationsEnabled[s] THEN "notificationsOff"
              ELSE "notificationsOn", "toggleNotifications")

\* The update of toggleLock reaches the store and toggleLock continues with
\* setIsLocked(newLockState).
LandToggleLock(r) ==
    /\ r \in requests /\ r.kind \in {"lockOn", "lockOff"}
    /\ requests' = requests \ {r}
    /\ persona_channels' =
           UpdateFlag(persona_channels, UserOf(r.client), r.channel,
                      "is_locked", r.kind = "lockOn")
    /\ isLocked' =
           IF persona[r.client] /= "none"
           THEN [isLocked EXCEPT ![r.client] = r.kind = "lockOn"]
           ELSE isLocked
    /\ lastOp' = Op("isLocked", r.channel, NULL)
    /\ UNCHANGED <<user_personas, message_attachments, newMessage,
                   selectedFile, notificationsEnabled, handlerNotifications,
                   permission, notified, lastSend>>
    /\ UNCHANGED <<now, typingVars, presenceVars, nextChannelId, messages,
                   persona, channelId, loadPc, sendPc, inbox, msgSubs,
                   msgList, inboundSince, peerSends, openLen>>

\* The update of toggleNotifications reaches the store and
\* toggleNotifications continues with
\* setNotificationsEnabled(newNotificationState).  A handler subscribed
\* earlier keeps the value it captured.
LandToggleNotifications(r) ==
    /\ r \in requests /\ r.kind \in {"notificationsOn", "notificationsOff"}
    /\ requests' = requests \ {r}
    /\ persona_channels' =
           UpdateFlag(persona_channels, UserOf(r.client), r.channel,
                      "notification_enabled", r.kind = "notificationsOn")
    /\ notificationsEnabled' =
           IF persona[r.client] /= "none"
           THEN [notificationsEnabled EXCEPT ![r.client] = r.kind = "notificationsOn"]
           ELSE notificationsEnabled
    /\ lastOp' = Op("notificationEnabled", r.channel, NULL)
    /\ UNCHANGED <<user_personas, message_attachments, newMessage,
                   selectedFile, isLocked, handlerNotifications, permission,
                   notified, lastSend>>
    /\ UNCHANGED <<now, typingVars, presenceVars, nextChannelId, messages,
                   persona, channelId, loadPc, sendPc, inbox, msgSubs,
                   msgList, inboundSince, peerSends, openLen>>

\* shouldSendNotification(): Notification.permission === 'granted' &&
\* document.hidden; sendNotification tests the same two again.
shouldSendNotification == permission = "granted" /\ hidden

\* The INSERT handler: setMessages(prev => [...prev, newMsg]); if the sender
\* is not the session's user, markMessageAsDelivered(newMsg.id) leaves with
\* new Date() and, when shouldSendNotification() and the notificationsEnabled
\* the handler captured both hold, a notification is created.
HandleInsertEvent(s) ==
    /\ inbox[s] /= <<>>
    /\ LET newMsg == Head(inbox[s])
       IN  /\ msgList' = [msgList EXCEPT ![s] = Append(@, newMsg.id)]
           /\ requests' =
                  IF newMsg.sender_id /= UserOf(s)
                  THEN requests \cup {Req("delivered", s, NULL, newMsg.id, now, "subscribeToMessages")}
                  ELSE requests
           /\ notified' =
                  IF /\ newMsg.sender_id /= UserOf(s)
                     /\ shouldSendNotification
                     /\ handlerNotifications[s][newMsg.channel_id]
                  THEN notified \cup {newMsg.id}
                  ELSE notified
    /\ Cardinality(requests') <= MaxInFlight
    /\ inbox' = [inbox EXCEPT ![s] = Tail(@)]
    /\ UNCHANGED lastOp
    /\ UNCHANGED <<user_personas, message_attachments, newMessage,
                   selectedFile, notificationsEnabled, isLocked, handlerNotifications,
                   permission, lastSend>>
    /\ UNCHANGED <<now, typingVars, presenceVars, openLen, persona_channels, nextChannelId, messages, persona,
                   channelId, loadPc, sendPc, msgSubs, inboundSince, peerSends>>

(* ------------------------- typing_indicators --------------------------- *)
\* sendTypingIndicator: expires_at = Date.now() + 5000, one period of the
\* clock.
TypingHorizon == 1

\* "Users can read typing in their channels"
TypingSelectPolicy(caller, c) ==
    caller = ServiceRole \/ OwnsChannel(caller, c)

\* "Users can insert typing in their channels"
TypingInsertPolicy(caller, c, u) ==
    caller = ServiceRole \/ (caller = u /\ OwnsChannel(caller, c))

\* "Users can update own typing indicators"
TypingUpdatePolicy(caller, row) ==
    caller = ServiceRole \/ caller = row.user_id

\* "Users can delete own typing indicators"
TypingDeletePolicy(caller, row) ==
    caller = ServiceRole \/ caller = row.user_id

\* The rows of a pair.
TypingRows(c, u) ==
    {t \in typing_indicators : t.channel_id = c /\ t.user_id = u}

\* The contact of the channel's contact row.
PeerOf(c) == contacts[ChannelRow(c).contact_id].contact_user_id

\* payload.new of a DELETE event is {}: its user_id is undefined and its
\* expires_at makes an invalid Date.
EmptyRecord == [user_id |-> "undefined", expires_at |-> NULL]

\* A postgres_changes event of typing_indicators.  of names the row the
\* event is about (the handler reads only eventType and new).
TypingEvent(eventType, row) ==
    [eventType |-> eventType,
     new |-> IF eventType = "DELETE" THEN EmptyRecord
             ELSE [user_id |-> row.user_id, expires_at |-> row.expires_at],
     of |-> [channel_id |-> row.channel_id, user_id |-> row.user_id]]

\* The events of one transaction, in commit order, reach every session whose
\* typing subscription filters on the row's channel and whose user may select
\* the row.
PublishTyping(ib, evs) ==
    [s \in Clients |->
        ib[s] \o SelectSeq(evs, LAMBDA e :
                     /\ typSub[s] = e.of.channel_id
                     /\ TypingSelectPolicy(UserOf(s), e.of.channel_id))]

QueuesBounded(ib) == \A s \in Clients : Len(ib[s]) <= MaxTypingQueue

\* (changed: no row conflicts with a new one)
UniqueChannelUser_unenforced(rows, c, u) == {}

\* UNIQUE(channel_id, user_id): the rows a new row of the pair conflicts with.
UniqueChannelUser(rows, c, u) ==
    {t \in rows : t.channel_id = c /\ t.user_id = u}

\* upsert({channel_id, user_id, expires_at}, {onConflict: 'channel_id,user_id'})
\* by caller at the store: without a conflicting row a row is inserted, with
\* created_at = now() by default; a conflicting row has its expires_at
\* updated and keeps its other columns.
UpsertTyping(caller, c, u, expires) ==
    LET old == UniqueChannelUser(typing_indicators, c, u)
        row == [channel_id |-> c, user_id |-> u, created_at |-> now,
                expires_at |-> expires]
        new == IF old = {} THEN {row}
               ELSE {[t EXCEPT !.expires_at = expires] : t \in old}
    IN  IF /\ ChannelExists(c)
           /\ TypingInsertPolicy(caller, c, u)
           /\ (old /= {} => TypingUpdatePolicy(caller, row))
        THEN /\ typing_indicators' = (typing_indicators \ old) \cup new
             /\ typInbox' = PublishTyping(typInbox,
                    <<TypingEvent(IF old = {} THEN "INSERT" ELSE "UPDATE",
                                  CHOOSE t \in new : TRUE)>>)
             /\ QueuesBounded(typInbox')
        ELSE UNCHANGED <<typing_indicators, typInbox>>

\* delete().eq('channel_id', c).eq('user_id', u) by caller at the store.
DeleteTyping(caller, c, u) ==
    LET gone == {t \in TypingRows(c, u) : TypingDeletePolicy(caller, t)}
    IN  /\ typing_indicators' = typing_indicators \ gone
        /\ typInbox' = IF gone = {} THEN typInbox
                       ELSE PublishTyping(typInbox,
                                <<TypingEvent("DELETE", CHOOSE t \in gone : TRUE)>>)
        /\ QueuesBounded(typInbox')

\* sendTypingIndicator's upsert reaches the store.
LandTypingUpsert(r) ==
    /\ r \in requests /\ r.kind = "typingUpsert"
    /\ requests' = requests \ {r}
    /\ UpsertTyping(UserOf(r.client), r.channel, UserOf(r.client), r.ts)
    /\ UNCHANGED <<now, viewVars, presenceVars, persona_channels, nextChannelId, messages,
                   persona, channelId, loadPc, sendPc, inbox, msgSubs, msgList,
                   inboundSince, peerSends, lastOp, openLen, typSub,
                   contactTyping, isTyping, typingTimer, typingTimeouts,
                   staleTimers, cleanupChannelId, shownUntil, lastTypingEvent>>

\* removeTypingIndicator's delete reaches the store.
LandTypingDelete(r) ==
    /\ r \in requests /\ r.kind = "typingDelete"
    /\ requests' = requests \ {r}
    /\ DeleteTyping(UserOf(r.client), r.channel, UserOf(r.client))
    /\ UNCHANGED <<now, viewVars, presenceVars, persona_channels, nextChannelId, messages,
                   persona, channelId, loadPc, sendPc, inbox, msgSubs, msgList,
                   inboundSince, peerSends, lastOp, openLen, typSub,
                   contactTyping, isTyping, typingTimer, typingTimeouts,
                   staleTimers, cleanupChannelId, shownUntil, lastTypingEvent>>

\* The contact's typing row of channel c is written by the service role (the
\* insert policy admits no row of the contact from an authenticated caller).
PeerTypingUpsert(c) ==
    /\ ChannelExists(c)
    /\ UpsertTyping(ServiceRole, c, PeerOf(c), now + TypingHorizon)
    /\ UNCHANGED <<now, viewVars, chatVars, presenceVars, typSub, contactTyping, isTyping,
                   typingTimer, typingTimeouts, staleTimers, cleanupChannelId,
                   shownUntil, lastTypingEvent>>

PeerTypingDelete(c) ==
    /\ ChannelExists(c)
    /\ TypingRows(c, PeerOf(c)) /= {}
    /\ DeleteTyping(ServiceRole, c, PeerOf(c))
    /\ UNCHANGED <<now, viewVars, chatVars, presenceVars, typSub, contactTyping, isTyping,
                   typingTimer, typingTimeouts, staleTimers, cleanupChannelId,
                   shownUntil, lastTypingEvent>>

\* The enumerations of a finite set.
SeqsOf(S) ==
    {q \in [1..Cardinality(S) -> S] :
        \A i, j \in 1..Cardinality(S) : i /= j => q[i] /= q[j]}

\* DELETE FROM typing_indicators WHERE expires_at < now()
cleanup_expired_typing_indicators ==
    LET gone == {t \in typing_indicators : t.expires_at < now}
    IN  /\ gone /= {}
        /\ typing_indicators' = typing_indicators \ gone
        /\ \E q \in SeqsOf(gone) :
               typInbox' = PublishTyping(typInbox,
                               [i \in 1..Len(q) |-> TypingEvent("DELETE", q[i])])
        /\ QueuesBounded(typInbox')
        /\ UNCHANGED <<now, viewVars, chatVars, presenceVars, typSub, contactTyping,
                       isTyping, typingTimer, typingTimeouts, staleTimers,
                       cleanupChannelId, shownUntil, lastTypingEvent>>

(* ------------------------ PersonaPanel: delete ------------------------ *)
\* handleDeletePersona(p), confirmed: DELETE FROM user_personas WHERE id = p.
\* persona_channels.persona_id, messages.channel_id and
\* typing_indicators.channel_id are declared ON DELETE CASCADE: the
\* persona's channels, their messages and their typing rows go with it.
\* onRefreshPersonas() reloads the list; the selected persona and the open
\* ChatView stay as they are.
DeletePersona(s, p) ==
    /\ persona[s] /= "none"
    /\ IF PersonaDeletePolicy(UserOf(s)) /\ p \in user_personas
       THEN LET gone == {pc.id : pc \in {x \in persona_channels : x.persona_id = p}}
                rows == {ti \in typing_indicators : ti.channel_id \in gone}
            IN  /\ user_personas' = user_personas \ {p}
                /\ persona_channels' =
                       {pc \in persona_channels : pc.persona_id /= p}
                /\ messages' =
                       [i \in 1..Len(messages) |->
                           IF messages[i].channel_id \in gone
                           THEN DeletedMessage(messages[i]) ELSE messages[i]]
                /\ typing_indicators' = typing_indicators \ rows
                /\ \E q \in SeqsOf(rows) :
                       typInbox' = PublishTyping(typInbox,
                                       [i \in 1..Len(q) |-> TypingEvent("DELETE", q[i])])
                /\ QueuesBounded(typInbox')
       ELSE UNCHANGED <<user_personas, persona_channels, messages,
                        typing_indicators, typInbox>>
    /\ lastOp' = Op("deletePersona", NULL, NULL)
    /\ UNCHANGED <<message_attachments, newMessage, selectedFile,
                   notificationsEnabled, isLocked, handlerNotifications, permission,
                   notified, lastSend>>
    /\ UNCHANGED <<now, presenceVars, nextChannelId, requests, persona,
                   channelId, loadPc, sendPc, inbox, msgSubs, msgList,
                   inboundSince, peerSends, openLen, typSub, contactTyping,
                   isTyping, typingTimer, typingTimeouts, staleTimers,
                   cleanupChannelId, shownUntil, lastTypingEvent>>

(* ---------------------- ChatView / typingService: typing --------------- *)
TypingReq(kind, s, c, ts, handler) == Req(kind, s, c, NULL, ts, handler)

\* handleTyping(value) with channelId set: setNewMessage(value), and the
\* first keystroke with value.length > 0 calls handleTypingInput(channelId, user.id,
\* true): the key's timer is replaced and sendTypingIndicator leaves.  Every
\* keystroke replaces the timer of typingTimeoutRef.
HandleTyping(s, value) ==
    /\ persona[s] /= "none"
    /\ channelId[s] /= NULL
    /\ newMessage' = [newMessage EXCEPT ![s] = value]
    /\ IF value /= "" /\ ~isTyping[s]
       THEN /\ isTyping' = [isTyping EXCEPT ![s] = TRUE]
            /\ typingTimeouts' = [typingTimeouts EXCEPT ![s] = @ \cup {channelId[s]}]
            /\ requests' = requests \cup
                   {TypingReq("typingUpsert", s, channelId[s], now + TypingHorizon,
                              "sendTypingIndicator")}
            /\ Cardinality(requests') <= MaxInFlight
       ELSE UNCHANGED <<isTyping, typingTimeouts, requests>>
    /\ typingTimer' = [typingTimer EXCEPT ![s] = channelId[s]]
    /\ UNCHANGED <<user_personas, message_attachments, selectedFile,
                   notificationsEnabled, isLocked, handlerNotifications, permission,
                   notified, lastSend>>
    /\ UNCHANGED <<now, presenceVars, persona_channels, nextChannelId, messages,
                   persona, channelId, loadPc, sendPc, inbox, msgSubs, msgList,
                   inboundSince, peerSends, lastOp, openLen, typing_indicators,
                   typInbox, typSub, contactTyping, staleTimers,
                   cleanupChannelId, shownUntil, lastTypingEvent>>

\* handleTypingInput(c, user.id, false): the key's timer is cleared and
\* removeTypingIndicator leaves.
StopTyping(s, c) ==
    /\ typingTimeouts' = [typingTimeouts EXCEPT ![s] = @ \ {c}]
    /\ requests' = requests \cup
           {TypingReq("typingDelete", s, c, NULL, "handleTypingInput")}
    /\ Cardinality(requests') <= MaxInFlight

\* The timer of typingTimeoutRef (2000 ms after the last keystroke) fires.
ChatTypingTimeout(s) ==
    /\ typingTimer[s] /= NULL
    /\ isTyping' = [isTyping EXCEPT ![s] = FALSE]
    /\ typingTimer' = [typingTimer EXCEPT ![s] = NULL]
    /\ StopTyping(s, typingTimer[s])
    /\ UNCHANGED <<now, viewVars, presenceVars, persona_channels, nextChannelId, messages,
                   persona, channelId, loadPc, sendPc, inbox, msgSubs, msgList,
                   inboundSince, peerSends, lastOp, openLen, typing_indicators,
                   typInbox, typSub, contactTyping, staleTimers,
                   cleanupChannelId, shownUntil, lastTypingEvent>>

\* The timer of typingTimeoutRef of an unmounted ChatView fires: setIsTyping
\* has no component to act on.
StaleTimerFires(s, c) ==
    /\ c \in staleTimers[s]
    /\ staleTimers' = [staleTimers EXCEPT ![s] = @ \ {c}]
    /\ StopTyping(s, c)
    /\ UNCHANGED <<now, viewVars, presenceVars, persona_channels, nextChannelId, messages,
                   persona, channelId, loadPc, sendPc, inbox, msgSubs, msgList,
                   inboundSince, peerSends, lastOp, openLen, typing_indicators,
                   typInbox, typSub, contactTyping, isTyping, typingTimer,
                   cleanupChannelId, shownUntil, lastTypingEvent>>

\* The timer handleTypingInput set for the key (3000 ms after the first
\* keystroke) fires: removeTypingIndicator leaves and the key is deleted.
ServiceTypingTimeout(s, c) ==
    /\ c \in typingTimeouts[s]
    /\ StopTyping(s, c)
    /\ UNCHANGED <<now, viewVars, presenceVars, persona_channels, nextChannelId, messages,
                   persona, channelId, loadPc, sendPc, inbox, msgSubs, msgList,
                   inboundSince, peerSends, lastOp, openLen, typing_indicators,
                   typInbox, typSub, contactTyping, isTyping, typingTimer,
                   staleTimers, cleanupChannelId, shownUntil, lastTypingEvent>>

\* new Date(indicator.expires_at) > new Date()
IsValid(expires_at, t) == expires_at /= NULL /\ expires_at > t

\* (changed: every event calls back and sets contactTyping)
HandleTypingEvent_any_user(s) ==
    /\ typInbox[s] /= <<>>
    /\ typInbox' = [typInbox EXCEPT ![s] = Tail(@)]
    /\ LET payload == Head(typInbox[s])
           indicator == payload.new
           shown == IF payload.eventType = "DELETE" THEN FALSE
                    ELSE IsValid(indicator.expires_at, now)
       IN  /\ contactTyping' = [contactTyping EXCEPT ![s] = shown]
           /\ shownUntil' = [shownUntil EXCEPT ![s] =
                                IF shown THEN indicator.expires_at ELSE NULL]
    /\ lastTypingEvent' =
           [client |-> s, eventType |-> Head(typInbox[s]).eventType,
            user_id |-> Head(typInbox[s]).new.user_id]
    /\ UNCHANGED <<now, viewVars, chatVars, presenceVars, typing_indicators, typSub,
                   isTyping, typingTimer, typingTimeouts, staleTimers,
                   cleanupChannelId>>

\* The handler subscribeToTyping registers, with the callback of
\* subscribeToTypingIndicators: an event of the session's own user is
\* ignored; INSERT / UPDATE call back with isValid, DELETE with false; the
\* callback sets contactTyping when its userId is contact.contact_user_id.
HandleTypingEvent(s) ==
    /\ typInbox[s] /= <<>>
    /\ typInbox' = [typInbox EXCEPT ![s] = Tail(@)]
    /\ LET payload == Head(typInbox[s])
           indicator == payload.new
           shown == IF payload.eventType = "DELETE" THEN FALSE
                    ELSE IsValid(indicator.expires_at, now)
       IN  IF /\ indicator.user_id /= UserOf(s)
              /\ indicator.user_id = contacts[ContactOf(s)].contact_user_id
           THEN /\ contactTyping' = [contactTyping EXCEPT ![s] = shown]
                /\ shownUntil' = [shownUntil EXCEPT ![s] =
                                     IF shown THEN indicator.expires_at ELSE NULL]
           ELSE UNCHANGED <<contactTyping, shownUntil>>
    /\ lastTypingEvent' =
           [client |-> s, eventType |-> Head(typInbox[s]).eventType,
            user_id |-> Head(typInbox[s]).new.user_id]
    /\ UNCHANGED <<now, viewVars, chatVars, presenceVars, typing_indicators, typSub,
                   isTyping, typingTimer, typingTimeouts, staleTimers,
                   cleanupChannelId>>

(* ------------------------------ user_presence -------------------------- *)
\* The session whose page (Messenger and presenceService) is followed.
Page == "a1"

\* The role of a request that carries no signed-in session.
Anon == "anon"

\* "Users can insert own presence" / "Users can update own presence": both
\* are TO authenticated and require auth.uid() = user_id.
PresenceWritePolicy(caller, u) ==
    caller = ServiceRole \/ caller = u

NoPresence == [from |-> "none", to |-> "none", cause |-> "none"]

PresenceInit ==
    /\ user_presence = {}
    /\ presenceWrites = {}
    /\ heartbeatInterval = FALSE
    /\ intervalTimers = 0
    /\ listeners = FALSE
    /\ mounted = FALSE
    /\ hidden = FALSE
    /\ session = FALSE
    /\ lastPresence = NoPresence

\* The upsert of updatePresence(userId, status), with last_seen = new Date().
\* cause names the caller of updatePresence; caller is the identity the
\* request is sent under.
PresenceUpsert(userId, status, cause, caller) ==
    [user_id |-> userId, status |-> status, last_seen |-> now,
     cause |-> cause, caller |-> caller]

\* The upserts ws leave the page; nobody awaits them.
SendPresence(ws) ==
    /\ presenceWrites' = presenceWrites \cup ws
    /\ Cardinality(presenceWrites') <= MaxPresenceInFlight

\* updatePresence(userId, status) called from a handler of the page: the
\* request carries the session the client holds at that moment.
updatePresence(userId, status, cause) ==
    SendPresence({PresenceUpsert(userId, status, cause,
                                 IF session THEN UserOf(Page) ELSE Anon)})

\* (changed: stopHeartbeat sends away)
stopHeartbeat_away(userId, caller) ==
    PresenceUpsert(userId, "away", "stopHeartbeat", caller)

\* stopHeartbeat(userId) with a userId: the upsert it sends.
stopHeartbeat(userId, caller) ==
    PresenceUpsert(userId, "offline", "stopHeartbeat", caller)

\* (changed: startHeartbeat does not call stopHeartbeat() first)
StartInterval_keeps_running(handle, timers) == timers + 1

\* stopHeartbeat: if (heartbeatInterval) clearInterval(heartbeatInterval).
\* The timers running afterwards, of timers running before with the
\* variable set (handle) or null.
StopInterval(handle, timers) == IF handle THEN timers - 1 ELSE timers

\* startHeartbeat: stopHeartbeat(), then heartbeatInterval = setInterval(...).
StartInterval(handle, timers) == StopInterval(handle, timers) + 1

\* Sign-in (or a page load with a stored session) makes user non-null:
\* Messenger mounts and its effect on [user] runs startHeartbeat(user.id),
\* which clears the interval, sends online, sets the interval and adds the
\* visibilitychange and beforeunload listeners.
MessengerMount ==
    /\ ~mounted
    /\ mounted' = TRUE
    /\ session' = TRUE
    /\ SendPresence({PresenceUpsert(UserOf(Page), "online", "startHeartbeat",
                                    UserOf(Page))})
    /\ intervalTimers' = StartInterval(heartbeatInterval, intervalTimers)
    /\ heartbeatInterval' = TRUE
    /\ listeners' = TRUE
    /\ UNCHANGED <<now, viewVars, chatVars, typingVars, user_presence, hidden, lastPresence>>

\* The auth listener sets a new user object while the session lasts (a
\* refreshed token, a repeated auth event): the effect on [user] runs its
\* cleanup, stopHeartbeat(user.id), and then startHeartbeat(user.id) again.
UserChanged ==
    /\ mounted
    /\ session
    /\ SendPresence({stopHeartbeat(UserOf(Page), UserOf(Page)),
                     PresenceUpsert(UserOf(Page), "online", "startHeartbeat",
                                    UserOf(Page))})
    /\ intervalTimers' =
           StartInterval(FALSE, StopInterval(heartbeatInterval, intervalTimers))
    /\ heartbeatInterval' = TRUE
    /\ UNCHANGED <<now, viewVars, chatVars, typingVars, user_presence, listeners, mounted,
                   hidden, session, lastPresence>>

\* Sign-out: supabase.auth.signOut() drops the session, the auth listener
\* sets user to null, App replaces Messenger by Auth and the effect's cleanup
\* runs stopHeartbeat(user.id) with the user of the closure.  The interval is
\* cleared and offline is sent by a client that has no session any more.  The
\* listeners stay.
MessengerUnmount ==
    /\ mounted
    /\ mounted' = FALSE
    /\ session' = FALSE
    /\ intervalTimers' = StopInterval(heartbeatInterval, intervalTimers)
    /\ heartbeatInterval' = FALSE
    /\ SendPresence({stopHeartbeat(UserOf(Page), Anon)})
    /\ UNCHANGED <<now, viewVars, chatVars, typingVars, user_presence, listeners, hidden,
                   lastPresence>>

\* The setInterval callback (every 30000 ms).
HeartbeatTick ==
    /\ intervalTimers > 0
    /\ updatePresence(UserOf(Page), "online", "heartbeat")
    /\ UNCHANGED <<now, viewVars, chatVars, typingVars, user_presence, heartbeatInterval, intervalTimers,
                   listeners, mounted, hidden, session, lastPresence>>

\* document's visibilitychange: a page with the listener sends away when it
\* becomes hidden and online when it becomes visible.
VisibilityChange ==
    /\ hidden' = ~hidden
    /\ IF listeners
       THEN updatePresence(UserOf(Page), IF hidden' THEN "away" ELSE "online",
                           IF hidden' THEN "hidden" ELSE "visible")
       ELSE UNCHANGED presenceWrites
    /\ UNCHANGED <<now, viewVars, chatVars, typingVars, user_presence, heartbeatInterval, intervalTimers,
                   listeners, mounted, session, lastPresence>>

\* window's beforeunload on a page with the listener: offline is sent and the
\* page, with every component and module variable of it, is gone.
BeforeUnload ==
    /\ listeners
    /\ updatePresence(UserOf(Page), "offline", "beforeunload")
    /\ heartbeatInterval' = FALSE
    /\ intervalTimers' = 0
    /\ listeners' = FALSE
    /\ mounted' = FALSE
    /\ hidden' = FALSE
    /\ persona' = [persona EXCEPT ![Page] = "none"]
    /\ channelId' = [channelId EXCEPT ![Page] = NULL]
    /\ loadPc' = [loadPc EXCEPT ![Page] = "idle"]
    /\ sendPc' = [sendPc EXCEPT ![Page] = "idle"]
    /\ inbox' = [inbox EXCEPT ![Page] = <<>>]
    /\ msgSubs' = [msgSubs EXCEPT ![Page] = {}]
    /\ msgList' = [msgList EXCEPT ![Page] = <<>>]
    /\ typInbox' = [typInbox EXCEPT ![Page] = <<>>]
    /\ typSub' = [typSub EXCEPT ![Page] = NULL]
    /\ contactTyping' = [contactTyping EXCEPT ![Page] = FALSE]
    /\ isTyping' = [isTyping EXCEPT ![Page] = FALSE]
    /\ typingTimer' = [typingTimer EXCEPT ![Page] = NULL]
    /\ typingTimeouts' = [typingTimeouts EXCEPT ![Page] = {}]
    /\ staleTimers' = [staleTimers EXCEPT ![Page] = {}]
    /\ cleanupChannelId' = [cleanupChannelId EXCEPT ![Page] = NULL]
    /\ shownUntil' = [shownUntil EXCEPT ![Page] = NULL]
    /\ UNCHANGED lastTypingEvent
    /\ UNCHANGED <<now, viewVars, persona_channels, nextChannelId, messages, requests,
                   inboundSince, peerSends, lastOp, openLen, typing_indicators,
                   user_presence, session, lastPresence>>

\* presenceService.startHeartbeat(u) called by any code of the page: the
\* running interval is cleared, online is sent for u, the interval is set
\* and the listeners are added.
CallStartHeartbeat(u) ==
    /\ updatePresence(u, "online", "startHeartbeat")
    /\ intervalTimers' = StartInterval(heartbeatInterval, intervalTimers)
    /\ heartbeatInterval' = TRUE
    /\ listeners' = TRUE
    /\ UNCHANGED <<now, viewVars, chatVars, typingVars, user_presence, mounted,
                   hidden, session, lastPresence>>

\* presenceService.stopHeartbeat(u) called by any code of the page.
CallStopHeartbeat(u) ==
    /\ updatePresence(u, "offline", "stopHeartbeat")
    /\ intervalTimers' = StopInterval(heartbeatInterval, intervalTimers)
    /\ heartbeatInterval' = FALSE
    /\ UNCHANGED <<now, viewVars, chatVars, typingVars, user_presence,
                   listeners, mounted, hidden, session, lastPresence>>

\* (changed: no row conflicts with a new one)
UniqueUserId_unenforced(rows, u) == {}

\* UNIQUE(user_id): the rows a new row of the user conflicts with.
UniqueUserId(rows, u) ==
    {p \in rows : p.user_id = u}

\* An upsert(..., {onConflict: 'user_id'}) reaches the store, which applies
\* it if the policies admit its caller and refuses it otherwise.
LandPresenceWrite(w) ==
    /\ w \in presenceWrites
    /\ presenceWrites' = presenceWrites \ {w}
    /\ LET old == UniqueUserId(user_presence, w.user_id)
       IN  IF PresenceWritePolicy(w.caller, w.user_id)
           THEN /\ user_presence' = (user_presence \ old) \cup
                       {[user_id |-> w.user_id, status |-> w.status,
                         last_seen |-> w.last_seen]}
                /\ lastPresence' =
                       [from |-> IF old = {} THEN "none"
                                 ELSE (CHOOSE p \in old : TRUE).status,
                        to |-> w.status, cause |-> w.cause]
           ELSE UNCHANGED <<user_presence, lastPresence>>
    /\ UNCHANGED <<now, viewVars, chatVars, typingVars, heartbeatInterval, intervalTimers, listeners,
                   mounted, hidden, session>>

\* The request of an unloading page is cancelled by the browser before it
\* is sent.
DropPresenceWrite(w) ==
    /\ w \in presenceWrites
    /\ w.cause = "beforeunload"
    /\ presenceWrites' = presenceWrites \ {w}
    /\ UNCHANGED <<now, viewVars, chatVars, typingVars, user_presence, heartbeatInterval, intervalTimers,
                   listeners, mounted, hidden, session, lastPresence>>

(* -------------------------------- clock -------------------------------- *)
Tick(limit) ==
    /\ now < limit
    /\ now' = now + 1
    /\ UNCHANGED <<chatVars, typingVars, presenceVars, viewVars>>

(* ---------------------------- specifications --------------------------- *)
vars == <<now, chatVars, typingVars, presenceVars, viewVars>>

\* The rows loadChannel has created for both personas of the contact.
BothChannels ==
    {NewChannelRow(1, "K1", "P1"), NewChannelRow(2, "K1", "P2")}

\* The store specifications: one session that opens and closes the channel
\* of persona P1, while rows are also written to the channel of persona P2.
StoreInit == now = 0 /\ ChatInit(BothChannels) /\ PresenceInit /\ ViewInit("default")

\* Unread counters: the session's sends, the service role's inserts, opening
\* a channel and its mark-read and reset calls.
UnreadNext ==
    \/ SelectPersona("a1", "P1")
    \/ Unmount("a1")
    \/ LoadChannelSelect("a1")
    \/ SendInsert("a1", "handleSendFile")
    \/ SendUpdate("a1")
    \/ \E c \in ChannelIds, u \in Users : ServiceInsert(c, u)
    \/ \E r \in requests : LandLoadMessages(r)
    \/ \E r \in requests : LandMarkRead(r)
    \/ \E r \in requests : LandReset(r)
    \/ \E r \in requests : LandLastMessageAt(r)

SpecUnread == StoreInit /\ [][UnreadNext]_vars

\* Messages addressed to the owner: the contact's sends, the service role's
\* inserts on the contact's behalf, opening a channel and its calls.
InboundNext ==
    \/ SelectPersona("a1", "P1")
    \/ Unmount("a1")
    \/ LoadChannelSelect("a1")
    \/ \E c \in ChannelIds : PeerSend(c)
    \/ \E c \in ChannelIds : ServiceInsert(c, "B")
    \/ \E r \in requests : LandLoadMessages(r)
    \/ \E r \in requests : LandMarkRead(r)
    \/ \E r \in requests : LandReset(r)

SpecInbound == StoreInit /\ [][InboundNext]_vars

\* Message status: rows of either sender, the INSERT handler's delivered
\* update and the mark-read call of an opened channel, with the clock.
StatusNext ==
    \/ SelectPersona("a1", "P1")
    \/ Unmount("a1")
    \/ LoadChannelSelect("a1")
    \/ \E c \in ChannelIds, u \in Users :
           Len(messages) < MaxStatusMsgs /\ ServiceInsert(c, u)
    \/ \E r \in requests : LandLoadMessages(r)
    \/ \E r \in requests : LandMarkRead(r)
    \/ \E r \in requests : LandReset(r)
    \/ \E r \in requests : LandDelivered(r)
    \/ HandleInsertEvent("a1")
    \/ Tick(MaxTime)

SpecStatus == StoreInit /\ [][StatusNext]_vars

\* Repeated calls of an opened channel: rows of the contact in the channel
\* of persona P1, one session that opens and closes that channel, and the
\* clock.
MarkReadNext ==
    \/ SelectPersona("a1", "P1")
    \/ Unmount("a1")
    \/ LoadChannelSelect("a1")
    \/ ServiceInsert(1, "B")
    \/ \E r \in requests : LandLoadMessages(r)
    \/ \E r \in requests : LandMarkRead(r)
    \/ \E r \in requests : LandReset(r)
    \/ Tick(MaxTime)

SpecMarkRead == StoreInit /\ [][MarkReadNext]_vars

\* Sends and their last_message_at updates, with the clock.
SendNext ==
    \/ SelectPersona("a1", "P1")
    \/ Unmount("a1")
    \/ LoadChannelSelect("a1")
    \/ HandleTyping("a1", "x")
    \/ \E h \in SendHandlers : SendInsert("a1", h)
    \/ SendUpdate("a1")
    \/ \E r \in requests : LandLoadMessages(r)
    \/ \E r \in requests : LandMarkRead(r)
    \/ \E r \in requests : LandReset(r)
    \/ \E r \in requests : LandLastMessageAt(r)
    \/ \E r \in requests : LandTypingUpsert(r)
    \/ \E r \in requests : LandTypingDelete(r)
    \/ Tick(MaxTime)

SpecSend == StoreInit /\ [][SendNext]_vars

\* The sessions resolving channels on an empty persona_channels table.
ResolveInit == now = 0 /\ ChatInit({}) /\ PresenceInit /\ ViewInit("default")

ResolveNext ==
    \/ \E s \in Clients, p \in Personas : SelectPersona(s, p)
    \/ \E s \in Clients : LoadChannelSelect(s)
    \/ \E s \in Clients : LoadChannelInsert(s)
    \/ \E r \in requests : LandLoadMessages(r)
    \/ \E r \in requests : LandMarkRead(r)
    \/ \E r \in requests : LandReset(r)
    \/ \E r \in requests : LandTypingDelete(r)

SpecResolve == ResolveInit /\ [][ResolveNext]_vars

\* Typing, the consuming side: one session that opens and closes the channel
\* of persona P1, the contact's typing rows, and the clock.
TypingNext ==
    \/ SelectPersona("a1", "P1")
    \/ Unmount("a1")
    \/ LoadChannelSelect("a1")
    \/ \E r \in requests : LandLoadMessages(r)
    \/ \E r \in requests : LandMarkRead(r)
    \/ \E r \in requests : LandReset(r)
    \/ \E c \in ChannelIds : PeerTypingUpsert(c)
    \/ \E c \in ChannelIds : PeerTypingDelete(c)
    \/ cleanup_expired_typing_indicators
    \/ HandleTypingEvent("a1")
    \/ Tick(MaxTypingTime)

SpecTyping == StoreInit /\ [][TypingNext]_vars

\* Typing rows of one session that keeps the channel of persona P1 open:
\* its keystrokes, its timers, its upserts and deletes, and the clock.
UpsertNext ==
    \/ SelectPersona("a1", "P1")
    \/ LoadChannelSelect("a1")
    \/ \E r \in requests : LandLoadMessages(r)
    \/ \E r \in requests : LandMarkRead(r)
    \/ \E r \in requests : LandReset(r)
    \/ HandleTyping("a1", "x")
    \/ ChatTypingTimeout("a1")
    \/ ServiceTypingTimeout("a1", 1)
    \/ \E r \in requests : LandTypingUpsert(r)
    \/ \E r \in requests : LandTypingDelete(r)
    \/ HandleTypingEvent("a1")
    \/ Tick(MaxTypingTime)

SpecUpsert == StoreInit /\ [][UpsertNext]_vars

\* Typing, both sides in one open channel: the session types while the
\* contact's typing row is written too, and the session's handler runs on
\* the events of both.  No time passes: every row is within its horizon.
BothTypingNext ==
    \/ SelectPersona("a1", "P1")
    \/ LoadChannelSelect("a1")
    \/ \E r \in requests : LandLoadMessages(r)
    \/ \E r \in requests : LandMarkRead(r)
    \/ \E r \in requests : LandReset(r)
    \/ HandleTyping("a1", "x")
    \/ ChatTypingTimeout("a1")
    \/ \E r \in requests : LandTypingUpsert(r)
    \/ \E r \in requests : LandTypingDelete(r)
    \/ PeerTypingUpsert(1)
    \/ HandleTypingEvent("a1")

SpecBothTyping == StoreInit /\ [][BothTypingNext]_vars

\* Typing, the producing side: one session that opens and closes the channel
\* of persona P1 and types in it, its timers and its requests, and the clock.
TypistNext ==
    \/ SelectPersona("a1", "P1")
    \/ Unmount("a1")
    \/ LoadChannelSelect("a1")
    \/ \E r \in requests : LandLoadMessages(r)
    \/ \E r \in requests : LandMarkRead(r)
    \/ \E r \in requests : LandReset(r)
    \/ \E v \in Typed : HandleTyping("a1", v)
    \/ ChatTypingTimeout("a1")
    \/ \E c \in ChannelIds : StaleTimerFires("a1", c)
    \/ \E c \in ChannelIds : ServiceTypingTimeout("a1", c)
    \/ \E r \in requests : LandTypingUpsert(r)
    \/ \E r \in requests : LandTypingDelete(r)
    \/ cleanup_expired_typing_indicators
    \/ HandleTypingEvent("a1")
    \/ Tick(MaxTypingTime)

SpecTypist == StoreInit /\ [][TypistNext]_vars

\* Presence: the page's Messenger, its timers and listeners, and the clock.
PresenceNext ==
    \/ MessengerMount
    \/ MessengerUnmount
    \/ UserChanged
    \/ HeartbeatTick
    \/ VisibilityChange
    \/ BeforeUnload
    \/ \E w \in presenceWrites : LandPresenceWrite(w)
    \/ \E w \in presenceWrites : DropPresenceWrite(w)
    \/ Tick(MaxTime)

SpecPresence == StoreInit /\ [][PresenceNext]_vars

\* One session of the owner that switches between its two personas'
\* channels without ever unmounting ChatView (Messenger renders it without
\* a key, so the component and its state survive a switch), while rows
\* addressed to the owner are stored in either channel.
ViewNext ==
    \/ \E p \in Personas : SelectPersona("a1", p)
    \/ LoadChannelSelect("a1")
    \/ \E c \in ChannelIds : ServiceInsert(c, "B")
    \/ \E r \in requests : LandLoadMessages(r)
    \/ \E r \in requests : LandMarkRead(r)
    \/ \E r \in requests : LandReset(r)
    \/ \E r \in requests : LandDelivered(r)
    \/ \E r \in requests : LandTypingDelete(r)
    \/ HandleInsertEvent("a1")
    \/ Tick(MaxTime)

SpecView == StoreInit /\ [][ViewNext]_vars

\* One session of the owner that types, sends and deletes personas in the
\* persona panel above the open chat.
DeleteNext ==
    \/ SelectPersona("a1", "P1")
    \/ LoadChannelSelect("a1")
    \/ LoadChannelInsert("a1")
    \/ \E p \in Personas : DeletePersona("a1", p)
    \/ HandleTyping("a1", "x")
    \/ SendInsert("a1", "handleSendMessage")
    \/ SendUpdate("a1")
    \/ \E r \in requests : LandLoadMessages(r)
    \/ \E r \in requests : LandMarkRead(r)
    \/ \E r \in requests : LandReset(r)
    \/ \E r \in requests : LandLastMessageAt(r)
    \/ \E r \in requests : LandTypingUpsert(r)
    \/ \E r \in requests : LandTypingDelete(r)

SpecDelete == StoreInit /\ [][DeleteNext]_vars

\* One session of the owner composing in its open chat: typing, submitting
\* the text, picking files and uploading them.
ComposeNext ==
    \/ SelectPersona("a1", "P1")
    \/ LoadChannelSelect("a1")
    \/ \E v \in Texts : HandleTyping("a1", v)
    \/ SendReturn("a1")
    \/ Len(messages) < MaxStatusMsgs /\ SendInsert("a1", "handleSendMessage")
    \/ \E f \in Files : HandleFileSelect("a1", f)
    \/ Len(messages) < MaxStatusMsgs /\ HandleUpload("a1")
    \/ UploadResolved("a1")
    \/ SendUpdate("a1")
    \/ \E r \in requests : LandLoadMessages(r)
    \/ \E r \in requests : LandMarkRead(r)
    \/ \E r \in requests : LandReset(r)
    \/ \E r \in requests : LandLastMessageAt(r)
    \/ \E r \in requests : LandTypingUpsert(r)
    \/ \E r \in requests : LandTypingDelete(r)

SpecCompose == StoreInit /\ [][ComposeNext]_vars

\* Rows stored in either channel and the two RPC functions called over the
\* API by any signed-in user.
RpcNext ==
    \/ \E c \in ChannelIds, u \in Users : ServiceInsert(c, u)
    \/ \E caller \in Callers, c \in ChannelIds : RpcResetUnreadCount(caller, c)
    \/ \E caller \in Callers, c \in ChannelIds, reader \in Callers :
           RpcMarkMessagesAsRead(caller, c, reader)
    \/ Tick(MaxTime)

SpecRpc == StoreInit /\ [][RpcNext]_vars

\* The contact has no channel yet, the channel of P1, or the channels of
\* both personas.
TotalsInit ==
    /\ now = 0
    /\ \E chs \in {{}, {NewChannelRow(1, "K1", "P1")}, BothChannels} :
           ChatInit(chs)
    /\ PresenceInit
    /\ ViewInit("default")

\* One session of the owner that opens the channel of P1, creating it on
\* first use, while rows addressed to the owner are stored.
TotalsNext ==
    \/ SelectPersona("a1", "P1")
    \/ LoadChannelSelect("a1")
    \/ LoadChannelInsert("a1")
    \/ \E c \in ChannelIds : ServiceInsert(c, "B")
    \/ \E r \in requests : LandLoadMessages(r)
    \/ \E r \in requests : LandMarkRead(r)
    \/ \E r \in requests : LandReset(r)

SpecTotals == TotalsInit /\ [][TotalsNext]_vars

\* The page's Notification.permission is whatever the user answered on an
\* earlier visit, or still undecided.
NotifyInit ==
    /\ now = 0
    /\ ChatInit(BothChannels)
    /\ PresenceInit
    /\ \E perm \in Permissions : ViewInit(perm)

\* One session of the owner with the chat of P1 open: the user toggles the
\* bell and hides or shows the page while rows addressed to the owner and
\* rows of the owner are stored.
NotifyNext ==
    \/ SelectPersona("a1", "P1")
    \/ LoadChannelSelect("a1")
    \/ ToggleNotifications("a1")
    \/ VisibilityChange
    \/ \E u \in Users : ServiceInsert(1, u)
    \/ HandleInsertEvent("a1")
    \/ \E r \in requests : LandToggleNotifications(r)
    \/ \E r \in requests : LandLoadMessages(r)
    \/ \E r \in requests : LandMarkRead(r)
    \/ \E r \in requests : LandReset(r)
    \/ \E r \in requests : LandDelivered(r)

SpecNotify == NotifyInit /\ [][NotifyNext]_vars

\* Delivery: one session of the owner that opens and closes the chat of P1
\* while the contact's messages are stored in its channel.
DeliverNext ==
    \/ SelectPersona("a1", "P1")
    \/ Unmount("a1")
    \/ LoadChannelSelect("a1")
    \/ ServiceInsert(1, "B")
    \/ HandleInsertEvent("a1")
    \/ \E r \in requests : LandLoadMessages(r)
    \/ \E r \in requests : LandMarkRead(r)
    \/ \E r \in requests : LandReset(r)
    \/ \E r \in requests : LandDelivered(r)

\* What the runtime guarantees: a pending loadChannel continues, an event
\* received is handled and a request sent reaches the store.  Nothing makes
\* the user open or close a chat, or the contact send.
DeliverFair ==
    /\ WF_vars(LoadChannelSelect("a1"))
    /\ WF_vars(HandleInsertEvent("a1"))
    /\ WF_vars(\E r \in requests : LandLoadMessages(r))
    /\ WF_vars(\E r \in requests : LandMarkRead(r))
    /\ WF_vars(\E r \in requests : LandReset(r))
    /\ WF_vars(\E r \in requests : LandDelivered(r))

SpecDeliver == StoreInit /\ [][DeliverNext]_vars /\ DeliverFair

\* Session s has no request on its way: the user clicks after the chat has
\* loaded and the last click has been answered.
ToggleAnswered(s) ==
    \A r \in requests : r.client /= s

\* Two sessions of the owner with the chat of P1 open, each clicking the
\* lock and the bell, while the contact's messages are stored in the
\* channel.
ToggleNext ==
    \/ \E s \in Clients : SelectPersona(s, "P1")
    \/ \E s \in Clients : LoadChannelSelect(s)
    \/ \E s \in Clients : ToggleAnswered(s) /\ ToggleLock(s)
    \/ ToggleAnswered("a1") /\ ToggleNotifications("a1")
    \/ Len(messages) < MaxStatusMsgs /\ ServiceInsert(1, "B")
    \/ \E r \in requests : LandToggleLock(r)
    \/ \E r \in requests : LandToggleNotifications(r)
    \/ \E r \in requests : LandLoadMessages(r)
    \/ \E r \in requests : LandMarkRead(r)
    \/ \E r \in requests : LandReset(r)

SpecToggle == StoreInit /\ [][ToggleNext]_vars

\* One session of the owner sending texts and files in the open chat of
\* P1, where an insert may fail on its way, with the clock.
FailedSendNext ==
    \/ SelectPersona("a1", "P1")
    \/ LoadChannelSelect("a1")
    \/ HandleTyping("a1", "x")
    \/ \E h \in SendHandlers :
           Len(messages) < MaxStatusMsgs /\ SendInsert("a1", h)
    \/ \E h \in SendHandlers : SendInsertFails("a1", h)
    \/ SendUpdate("a1")
    \/ \E r \in requests : LandLoadMessages(r)
    \/ \E r \in requests : LandMarkRead(r)
    \/ \E r \in requests : LandReset(r)
    \/ \E r \in requests : LandLastMessageAt(r)
    \/ \E r \in requests : LandTypingUpsert(r)
    \/ \E r \in requests : LandTypingDelete(r)
    \/ Tick(MaxTime)

SpecFailedSend == StoreInit /\ [][FailedSendNext]_vars

\* Inserts into messages sent over the API by any signed-in user, for any
\* channel and with any sender_id, while a session of the owner has the chat
\* of P1 open; with the clock.
PolicyNext ==
    \/ SelectPersona("a1", "P1")
    \/ LoadChannelSelect("a1")
    \/ \E caller \in Callers, c \in ChannelIds, sender \in Users :
           ApiInsertMessage(caller, c, sender)
    \/ HandleInsertEvent("a1")
    \/ \E r \in requests : LandLoadMessages(r)
    \/ \E r \in requests : LandMarkRead(r)
    \/ \E r \in requests : LandReset(r)
    \/ Tick(MaxTime)

SpecPolicy == StoreInit /\ [][PolicyNext]_vars

\* The heartbeat functions called in any order and for any user, next to
\* Messenger's own calls of them, with the clock.
HeartbeatNext ==
    \/ MessengerMount
    \/ MessengerUnmount
    \/ UserChanged
    \/ \E u \in Users : CallStartHeartbeat(u)
    \/ \E u \in Users : CallStopHeartbeat(u)
    \/ BeforeUnload
    \/ \E w \in presenceWrites : LandPresenceWrite(w)
    \/ \E w \in presenceWrites : DropPresenceWrite(w)
    \/ Tick(MaxTime)

SpecHeartbeat == StoreInit /\ [][HeartbeatNext]_vars

(* ============================== claims ================================= *)
\* The owner of a channel: the user_id of the channel's contact.
OwnerOf(pc) == contacts[pc.contact_id].user_id

InboundIds(c) ==
    {i \in MsgIds : messages[i].channel_id = c
                    /\ messages[i].sender_id /= OwnerOf(ChannelRow(c))}

\* C1 (SpecUnread): in every state, every channel's unread_count is the
\* number of inbound messages (sender different from the owner of the
\* channel's contact) inserted since the channel's most recent reset.  The
\* count and the counter change in the same step, so an inbound insert raises
\* the counter by one with the insert, and no other step raises it.
C1_UnreadCountsInboundSinceReset ==
    \A pc \in persona_channels : pc.unread_count = inboundSince[pc.id]

\* C1 witness: a channel holds two inbound messages and a reset landed
\* between them, so its counter is 1.
C1_Witness ==
    \E pc \in persona_channels :
        /\ Cardinality(InboundIds(pc.id)) = 2
        /\ pc.unread_count = 1
        /\ inboundSince[pc.id] = 1

StatusRank(st) == CASE st = "sent" -> 0 [] st = "delivered" -> 1 [] st = "read" -> 2

\* A delivered update leaves the requests in flight in this step.
DeliveredLands(r) ==
    r \in requests /\ r.kind = "delivered" /\ r \notin requests'

C3_OneChannelPerPair ==
    \A pc1, pc2 \in persona_channels :
        (pc1.contact_id = pc2.contact_id /\ pc1.persona_id = pc2.persona_id)
            => pc1.id = pc2.id

\* C3 witness: two sessions found no row for the same pair and both sent the
\* insert; the second insert has just been refused and one row exists.
C3_Witness ==
    /\ lastOp.op = "insertChannelFailed"
    /\ \E pc \in persona_channels :
           /\ pc.contact_id = "K1" /\ pc.persona_id = "P1"
           /\ persona["a1"] = "P1" /\ persona["a2"] = "P1"

\* A session's loadChannel has finished for the pair it shows.
LoadFinished(s) == persona[s] /= "none" /\ loadPc[s] = "idle"

\* C4 (SpecResolve), the claim as stated: a session whose loadChannel has
\* finished holds the id of the row of its (contact, persona) pair, also when
\* its insert was refused by the uniqueness constraint.
C4_LoserResolvesToWinner ==
    \A s \in Clients :
        LoadFinished(s) =>
            \E pc \in persona_channels :
                /\ pc.id = channelId[s]
                /\ pc.contact_id = ContactOf(s)
                /\ pc.persona_id = persona[s]

\* No session shows channel c and no reset for it is on its way.
NotViewing(c) ==
    /\ \A s \in Clients : channelId[s] /= c
    /\ \A r \in requests : ~(r.kind = "reset" /\ r.channel = c)

\* Session s shows channel c and the mark-read and reset calls of its
\* channel effect have both landed.
OpenedAndSettled(s, c) ==
    /\ channelId[s] = c
    /\ \A r \in requests :
           ~(r.client = s /\ r.channel = c /\ r.kind \in {"markRead", "reset"})

\* C7 (SpecInbound), the claim as stated: while the owner is not viewing a
\* channel, its unread_count is the number of messages the contact has sent
\* into it since the last reset; and once the owner has opened the channel
\* and its calls have landed, every message of the contact that was there
\* when it opened is read with read_at set, and unread_count is 0 unless
\* another inbound message came in after the opening.
C7_ContactSendsCountUntilOpened ==
    /\ \A pc \in persona_channels :
           NotViewing(pc.id) => pc.unread_count = peerSends[pc.id]
    /\ \A s \in Clients : \A pc \in persona_channels :
           OpenedAndSettled(s, pc.id) =>
               /\ \A i \in InboundIds(pc.id) :
                      i <= openLen[s] =>
                          (messages[i].status = "read" /\ messages[i].read_at /= NULL)
               /\ (\A i \in InboundIds(pc.id) : i <= openLen[s]) => pc.unread_count = 0

\* C8 (SpecSend), the claim as stated: no step lowers a channel's
\* last_message_at.
C8_LastMessageAtNeverDecreases ==
    [][\A pc \in persona_channels : \A pc2 \in persona_channels' :
           pc2.id = pc.id => pc2.last_message_at >= pc.last_message_at]_vars

C5_NotShownPastHorizon ==
    \A s \in Clients : contactTyping[s] => now < shownUntil[s]

\* The typing handler of session s consumes the event at the head of its
\* inbox in this step.
HandlesTypingEvent(s) ==
    /\ typInbox[s] /= <<>>
    /\ typInbox'[s] = Tail(typInbox[s])
    /\ typSub[s] /= NULL
    /\ typSub'[s] = typSub[s]

\* C6 (SpecTyping), the claim as stated: when a session's typing handler
\* consumes a DELETE event of the contact's typing row in the open channel,
\* the session's contactTyping is false afterwards.
C6_DeleteClearsContactTyping ==
    [][\A s \in Clients :
          (/\ HandlesTypingEvent(s)
           /\ Head(typInbox[s]).eventType = "DELETE"
           /\ Head(typInbox[s]).of.user_id = contacts[ContactOf(s)].contact_user_id
           /\ Head(typInbox[s]).of.channel_id = channelId[s])
              => contactTyping'[s] = FALSE]_vars

\* The edges online <-> away and away <-> offline.
AdjacentEdges ==
    {<<"online", "away">>, <<"away", "online">>,
     <<"away", "offline">>, <<"offline", "away">>}

\* C10 (SpecPresence), the claim as stated: a user's stored status changes
\* only along online <-> away and away <-> offline.
C10_OnlyAdjacentEdges ==
    [][\A p \in user_presence : \A q \in user_presence' :
          (q.user_id = p.user_id /\ q.status /= p.status)
              => <<p.status, q.status>> \in AdjacentEdges]_vars

\* The callers of updatePresence that send each status.
CausesOf(status) ==
    CASE status = "online" -> {"startHeartbeat", "heartbeat", "visible"}
      [] status = "away" -> {"hidden"}
      [] status = "offline" -> {"stopHeartbeat", "beforeunload"}

\* C10 (SpecPresence), amended: in every step, a user's stored status changes
\* (or its row appears) only by an updatePresence upsert reaching the store,
\* and it takes the status that upsert carries: online from startHeartbeat, a
\* heartbeat tick or the page becoming visible, away from the page becoming
\* hidden, offline from stopHeartbeat or beforeunload.  The edges are not
\* restricted: online -> offline and offline -> online are taken directly.
C10_StatusFollowsItsWrite ==
    [][\A q \in user_presence' :
          (\A p \in user_presence : p.user_id = q.user_id => p.status /= q.status)
              => \E w \in presenceWrites :
                     /\ w \notin presenceWrites'
                     /\ w.user_id = q.user_id
                     /\ w.status = q.status
                     /\ w.cause \in CausesOf(q.status)]_vars

\* C10 witness: the offline upsert of stopHeartbeat, sent under the user's
\* session, has just reached the store while the stored status was online.
C10_Witness ==
    /\ lastPresence = [from |-> "online", to |-> "offline", cause |-> "stopHeartbeat"]
    /\ \E p \in user_presence : p.user_id = "A" /\ p.status = "offline"

\* C11 (SpecPresence), the claim as stated: in every step, the stored
\* last_seen of a user does not decrease, whatever the order in which the
\* presence writes reach the store.
C11_LastSeenNeverDecreases ==
    [][\A p \in user_presence : \A q \in user_presence' :
          q.user_id = p.user_id => q.last_seen >= p.last_seen]_vars

\* C12 (SpecPresence), the claim as stated: when the session of the page has
\* been torn down (Messenger is not mounted any more) and no presence write
\* is in flight, the stored status of the page's user is offline.
C12_TeardownLeavesOffline ==
    (~mounted /\ presenceWrites = {})
        => \A p \in user_presence :
               p.user_id = UserOf(Page) => p.status = "offline"

\* The stored status of user u is st.
StoredStatus(rows, u, st) ==
    \E p \in rows : p.user_id = u /\ p.status = st

\* C13 (SpecPresence), the claim as stated: a heartbeat tick sends online
\* only while the page is visible, and while the page stays hidden and
\* Messenger stays mounted a stored status of away stays away.
C13_AwayWhileHidden ==
    [][/\ \A w \in presenceWrites' \ presenceWrites :
              w.cause = "heartbeat" => ~hidden
       /\ (/\ hidden /\ hidden'
           /\ mounted /\ mounted'
           /\ StoredStatus(user_presence, UserOf(Page), "away"))
              => StoredStatus(user_presence', UserOf(Page), "away")]_vars

\* A mark_messages_as_read call reaches the store in this step.
MarkReadLands(r) ==
    r \in requests /\ r.kind = "markRead" /\ r \notin requests'

\* C14 (SpecUnread): in every step in which mark_messages_as_read(c, r)
\* runs, the messages that change are exactly those of channel c whose sender
\* is not r and whose status is not read; each of them becomes read with
\* read_at set and every other column kept.  Messages sent by r, messages
\* already read and messages of other channels stay as they are.
C14_MarkReadChangesExactlyUnreadInbound ==
    [][\A r \in requests : MarkReadLands(r) =>
          /\ Len(messages') = Len(messages)
          /\ {i \in MsgIds : messages'[i] /= messages[i]} =
                 {i \in MsgIds : /\ messages[i].channel_id = r.channel
                                 /\ messages[i].sender_id /= UserOf(r.client)
                                 /\ messages[i].status /= "read"}
          /\ \A i \in MsgIds : messages'[i] /= messages[i] =>
                 /\ messages'[i].status = "read"
                 /\ messages'[i].read_at = now
                 /\ messages'[i].id = messages[i].id
                 /\ messages'[i].channel_id = messages[i].channel_id
                 /\ messages'[i].sender_id = messages[i].sender_id
                 /\ messages'[i].created_at = messages[i].created_at
                 /\ messages'[i].delivered_at = messages[i].delivered_at]_vars

\* C14 witness: mark_messages_as_read has just run on a channel that holds a
\* message it marked and a message of the reader, while another channel
\* holds an unread message of the contact.
C14_Witness ==
    /\ lastOp.op = "markRead"
    /\ \E i, j \in MsgIds :
           /\ messages[i].channel_id = lastOp.channel
           /\ messages[i].sender_id = "B"
           /\ messages[i].status = "read"
           /\ messages[i].read_at = now
           /\ messages[j].channel_id /= lastOp.channel
           /\ messages[j].sender_id = "B"
           /\ messages[j].status = "sent"

\* C15 (SpecMarkRead): in every step in which mark_messages_as_read(c, r)
\* runs while the write the store ran last was mark_messages_as_read(c, r)
\* too, no message changes: every status and read_at is as the first call
\* left it, also when the second call runs at a later time.
C15_MarkReadIdempotent ==
    [][\A r \in requests :
          (/\ MarkReadLands(r)
           /\ lastOp.op = "markRead"
           /\ lastOp.channel = r.channel)
              => messages' = messages]_vars

\* C15 witness: the second of two consecutive mark_messages_as_read calls on
\* a channel has just run, later than the read_at the first call gave to a
\* message of the contact.
C15_Witness ==
    /\ lastOp.op = "markRead"
    /\ lastOp.again
    /\ \E i \in MsgIds :
           /\ messages[i].channel_id = lastOp.channel
           /\ messages[i].sender_id = "B"
           /\ messages[i].status = "read"
           /\ messages[i].read_at < now

\* A reset_unread_count call reaches the store in this step.
ResetLands(r) ==
    r \in requests /\ r.kind = "reset" /\ r \notin requests'

\* C16 (SpecUnread): in every step in which reset_unread_count(c) runs,
\* channel c keeps every column but unread_count, which becomes 0 whatever
\* it was; every other channel and every message stay as they are; and when
\* the write the store ran last was reset_unread_count(c) too, nothing
\* changes at all.
C16_ResetZeroesOnlyTheCounter ==
    [][\A r \in requests : ResetLands(r) =>
          /\ messages' = messages
          /\ persona_channels' =
                 {IF pc.id = r.channel THEN [pc EXCEPT !.unread_count = 0]
                  ELSE pc : pc \in persona_channels}
          /\ (lastOp.op = "reset" /\ lastOp.channel = r.channel)
                 => persona_channels' = persona_channels]_vars

\* C16 witness: the second of two consecutive reset_unread_count calls on a
\* channel has just run; the channel holds a message of the contact and its
\* counter is 0, while another channel's counter is positive.
C16_Witness ==
    /\ lastOp.op = "reset"
    /\ lastOp.again
    /\ ChannelRow(lastOp.channel).unread_count = 0
    /\ \E i \in MsgIds :
           /\ messages[i].channel_id = lastOp.channel
           /\ messages[i].sender_id = "B"
    /\ \E pc \in persona_channels :
           pc.id /= lastOp.channel /\ pc.unread_count > 0

\* A sendTypingIndicator upsert reaches the store in this step.
TypingUpsertLands(r) ==
    r \in requests /\ r.kind = "typingUpsert" /\ r \notin requests'

\* C17 (SpecUpsert): after every step there is at most one typing_indicators
\* row per (channel_id, user_id); a sendTypingIndicator call leaves with
\* expires_at = the time of the call + 5 seconds; and when its upsert
\* reaches a store that holds a row of the pair, that row stays, with the
\* call's expires_at and its other columns as they were, and no row is added.
C17_OneTypingRowUpdatedInPlace ==
    [][/\ \A t1, t2 \in typing_indicators' :
              (t1.channel_id = t2.channel_id /\ t1.user_id = t2.user_id)
                  => t1 = t2
       /\ \A r \in requests' \ requests :
              r.kind = "typingUpsert" => r.ts = now + TypingHorizon
       /\ \A r \in requests : \A t \in typing_indicators :
              (/\ TypingUpsertLands(r)
               /\ t.channel_id = r.channel
               /\ t.user_id = UserOf(r.client))
                  => typing_indicators' =
                         (typing_indicators \ {t}) \cup
                             {[t EXCEPT !.expires_at = r.ts]}]_vars

\* C17 witness: the session's typing row carries an expires_at of a call
\* made after the row was created, and the UPDATE event of that upsert waits
\* in the session's typing inbox.
C17_Witness ==
    /\ \E t \in typing_indicators :
           /\ t.user_id = "A"
           /\ t.expires_at > t.created_at + TypingHorizon
    /\ \E i \in 1..Len(typInbox["a1"]) :
           /\ typInbox["a1"][i].eventType = "UPDATE"
           /\ typInbox["a1"][i].of.user_id = "A"

\* Session s is not typing and every clear it has issued has been
\* processed: no timer of it is pending and no delete of it is in flight.
TypingCleared(s) ==
    /\ ~isTyping[s]
    /\ typingTimer[s] = NULL
    /\ typingTimeouts[s] = {}
    /\ staleTimers[s] = {}
    /\ \A r \in requests : ~(r.client = s /\ r.kind = "typingDelete")

\* The one session of the user that types.
Typist == "a1"

\* C18 (SpecTypist), the claim as stated: once the clear of the typing
\* session has been processed and until its user types again, the store
\* holds no typing row of that user, also when a sendTypingIndicator upsert
\* was still in flight when the clear was issued.
C18_NoRowAfterClear ==
    TypingCleared(Typist)
        => \A t \in typing_indicators : t.user_id /= UserOf(Typist)

\* C19 (SpecBothTyping): in every step in which a session's typing handler
\* runs on an INSERT or UPDATE event whose user_id is the session's own
\* user, the session's contactTyping stays as it was.
C19_OwnTypingEventIgnored ==
    [][\A s \in Clients :
          (/\ HandlesTypingEvent(s)
           /\ Head(typInbox[s]).eventType \in {"INSERT", "UPDATE"}
           /\ Head(typInbox[s]).new.user_id = UserOf(s))
              => contactTyping'[s] = contactTyping[s]]_vars

\* C19 witness: the session's handler has just run on an event of its own
\* user's typing row while it shows the contact as typing.
C19_Witness ==
    /\ lastTypingEvent.client = "a1"
    /\ lastTypingEvent.eventType \in {"INSERT", "UPDATE"}
    /\ lastTypingEvent.user_id = "A"
    /\ contactTyping["a1"]

\* C20 (SpecPresence): after every step user_presence holds at most one row
\* per user, and a user that has a row before a step has one after it.
C20_OnePresenceRowNeverRemoved ==
    [][/\ \A p, q \in user_presence' : p.user_id = q.user_id => p = q
       /\ \A p \in user_presence :
              \E q \in user_presence' : q.user_id = p.user_id]_vars

\* C20 witness: the offline upsert of beforeunload has just reached the
\* store, which held the user's row, and the row is there.
C20_Witness ==
    /\ lastPresence.cause = "beforeunload"
    /\ lastPresence.from /= "none"
    /\ \E p \in user_presence : p.user_id = "A" /\ p.status = "offline"

\* C21 (SpecView): a session holds a message subscription only for the
\* channel its ChatView currently has open; once the view has moved to
\* another channel no handler of the earlier channel is left.
C21_OnlyOpenChannelSubscribed ==
    \A s \in Clients : \A c \in msgSubs[s] : c = channelId[s]

\* C22 (SpecTypist): on every step in which a session's ChatView leaves its
\* open channel (persona switch or unmount) while the user's typing row of
\* that channel is stored, a delete of that row is in flight after the step.
C22_ExitClearsTypingRow ==
    [][\A s \in Clients :
          (/\ persona[s] /= "none"
           /\ persona'[s] /= persona[s]
           /\ channelId[s] /= NULL
           /\ \E row \in typing_indicators :
                  row.channel_id = channelId[s] /\ row.user_id = UserOf(s))
              => \E r \in requests' :
                     /\ r.kind = "typingDelete"
                     /\ r.client = s
                     /\ r.channel = channelId[s]]_vars

\* C23 (SpecView): once the loadMessages of the open channel has returned
\* (none of the session's loadMessages is in flight), every message in the
\* session's list belongs to the open channel.
C23_ListHoldsOnlyOpenChannel ==
    \A s \in Clients :
        (/\ channelId[s] /= NULL
         /\ loadPc[s] = "idle"
         /\ ~\E r \in requests : r.kind = "loadMessages" /\ r.client = s)
            => \A i \in 1..Len(msgList[s]) :
                   messages[msgList[s][i]].channel_id = channelId[s]

\* C24 (SpecView): in a session that has subscribed to its open channel
\* only, the messages of the list appear in ascending created_at: no
\* message stands before one that was created earlier.
C24_ListAscendsInCreatedAt ==
    \A s \in Clients :
        msgSubs[s] = {channelId[s]}
            => \A i, j \in 1..Len(msgList[s]) :
                   i < j => messages[msgList[s][i]].created_at
                                <= messages[msgList[s][j]].created_at

\* C25 (SpecDelete): while no message has been stored, so that every send
\* so far has failed at its insert, the step in which a handleSendMessage
\* run continues after its second await leaves the session's input text as
\* it is.
C25_FailedSendKeepsText ==
    [][\A r \in requests :
          (/\ Len(messages) = 0
           /\ r.kind = "lastMessageAt"
           /\ r.handler = "handleSendMessage"
           /\ r \notin requests')
              => newMessage'[r.client] = newMessage[r.client]]_vars

\* C26 (SpecCompose): a handleSendMessage run reaches the store only with a
\* text that is neither empty nor whitespace; a step in which a send
\* returns at its first line or a picked file is refused changes no table,
\* no bucket and sends no request; and every file in the bucket is within
\* the size limit and of an allowed type.
C26_RejectedSendWritesNothing ==
    [][/\ \A s \in Clients :
              (sendPc[s] = "idle" /\ sendPc'[s] = "handleSendMessage")
                  => newMessage[s] \notin {"", " "}
       /\ (lastSend' /= lastSend /\ lastSend'.outcome \in {"returned", "rejected"})
              => UNCHANGED <<messages, persona_channels, typing_indicators,
                             message_attachments, requests>>
       /\ \A o \in message_attachments' :
              o.file.size <= MAX_FILE_SIZE /\ o.file.type \in ALLOWED_TYPES]_vars

\* C26 witness: with a whitespace-only text in the input the send has just
\* returned at its first line, after a file was uploaded and sent.
C26_Witness ==
    /\ lastSend = [client |-> "a1", handler |-> "handleSendMessage",
                   outcome |-> "returned"]
    /\ newMessage["a1"] = " "
    /\ message_attachments /= {}

\* C27 (SpecRpc): a call of reset_unread_count by a user that is not a
\* participant of the channel, and a call of mark_messages_as_read by such
\* a user or with a reader that is not the caller, changes no unread_count
\* and no message.
C27_ForeignRpcChangesNothing ==
    [][\A caller \in Callers, c \in ChannelIds, reader \in Callers :
          (\/ /\ ChannelExists(c)
              /\ caller \notin Participants(c)
              /\ RpcResetUnreadCount(caller, c)
           \/ /\ ChannelExists(c)
              /\ caller \notin Participants(c) \/ reader /= caller
              /\ RpcMarkMessagesAsRead(caller, c, reader))
              => UNCHANGED <<persona_channels, messages>>]_vars

\* C28 (SpecDelete): no operation of the persona panel or the chat removes
\* a channel: a channel that is stored before a step is stored after it,
\* and so is every message of it.
C28_ChannelsOutliveUiOperations ==
    [][/\ \A pc \in persona_channels :
              \E pc2 \in persona_channels' : pc2.id = pc.id
       /\ \A i \in 1..Len(messages) :
              messages'[i].channel_id = messages[i].channel_id]_vars

\* C29 (SpecTotals): in every state the unread total that loadPresenceData
\* shows for a contact is the sum, over the channel ids, of the
\* unread_count of the contact's stored channels, which is 0 when the
\* contact has none.
RECURSIVE UnreadUpTo(_, _)
UnreadUpTo(k, n) ==
    IF n = 0 THEN 0
    ELSE UnreadUpTo(k, n - 1) +
         (IF ChannelExists(n) /\ ChannelRow(n).contact_id = k
          THEN ChannelRow(n).unread_count ELSE 0)

C29_TotalIsSumOfChannels ==
    \A k \in Contacts :
        unread_count(contacts[k].user_id, k) = UnreadUpTo(k, MaxChannels)

\* C29 witness: the contact has two channels with unread messages in
\* each, and the total shown is 2.
C29_Witness ==
    /\ \A c \in {1, 2} : ChannelExists(c) /\ ChannelRow(c).unread_count = 1
    /\ unread_count("A", "K1") = 2

\* C30 (SpecNotify): a browser notification is created for a message only
\* in a step of a session whose open channel has notifications on, in the
\* stored flag and in the view's state, while the page is hidden,
\* permission is granted and the message was sent by the other participant.
C30_NotifiedOnlyWhenEnabled ==
    [][\A s \in Clients :
          (/\ inbox[s] /= <<>>
           /\ inbox'[s] = Tail(inbox[s])
           /\ notified' /= notified)
              => /\ channelId[s] = Head(inbox[s]).channel_id
                 /\ notificationsEnabled[s]
                 /\ ChannelRow(channelId[s]).notification_enabled
                 /\ hidden
                 /\ permission = "granted"
                 /\ Head(inbox[s]).sender_id /= UserOf(s)]_vars

\* C31 (SpecDeliver), the claim as stated: a message of the contact for
\* which the session's INSERT handler has run, so that its
\* markMessageAsDelivered update is on its way, eventually has a stored
\* status of delivered or read.
C31_ReceivedIsEventuallyDelivered ==
    \A i \in 1..MaxMsgs :
        (\E r \in requests : r.kind = "delivered" /\ r.msg = i)
            ~> (i <= Len(messages) /\ messages[i].status \in {"delivered", "read"})

\* The update of a toggle reaches the store in this step.
ToggleLands(r) ==
    r \in requests /\ r.kind \in ToggleKinds /\ r \notin requests'

\* C32 (SpecToggle): in every step in which the update of toggleLock or
\* toggleNotifications reaches the store, no message changes and the
\* channels after the step are the channels before it with the one flag of
\* the toggled channel set to the value the update carries: unread_count,
\* last_message_at, the other flag and every other channel are kept, and
\* whatever another session wrote before, the flag holds the value of the
\* update that arrived last.
C32_ToggleWritesOneFlag ==
    [][\A r \in requests : ToggleLands(r) =>
          /\ messages' = messages
          /\ persona_channels' =
                 {IF pc.id /= r.channel THEN pc
                  ELSE IF r.kind \in {"lockOn", "lockOff"}
                       THEN [pc EXCEPT !.is_locked = r.kind = "lockOn"]
                       ELSE [pc EXCEPT !.notification_enabled =
                                           r.kind = "notificationsOn"]
                  : pc \in persona_channels}]_vars

\* C32 witness: two sessions toggled the lock of the same channel at the
\* same time; the unlock of the first arrived after the lock of the second
\* and the channel is unlocked, while the second session shows it locked.
\* The channel's unread counter is positive and its bell is off.
C32_Witness ==
    /\ lastOp.op = "isLocked"
    /\ lastOp.again
    /\ ~ChannelRow(1).is_locked
    /\ isLocked["a2"]
    /\ ~isLocked["a1"]
    /\ ChannelRow(1).unread_count > 0
    /\ ~ChannelRow(1).notification_enabled

\* C33 (SpecDeliver), the claim as stated: once a session with an open
\* channel has nothing left to process (its loadMessages has returned and
\* every INSERT event it received has been handled), every message stored
\* in the channel stands in the session's list exactly once.
C33_ListedExactlyOnce ==
    \A s \in Clients :
        (/\ channelId[s] /= NULL
         /\ inbox[s] = <<>>
         /\ ~\E r \in requests : r.kind = "loadMessages" /\ r.client = s)
            => \A i \in MsgIds :
                   messages[i].channel_id = channelId[s] =>
                       Cardinality({k \in 1..Len(msgList[s]) :
                                       msgList[s][k] = i}) = 1

\* C34 (SpecFailedSend), the claim as stated: a channel's last_message_at
\* changes only together with a successfully inserted message, so after
\* every step that changes it the channel holds a message that was created
\* no later than the new value; and no step in which no message is stored
\* changes an unread_count upward.
C34_LastMessageAtOnlyWithMessage ==
    [][\A pc \in persona_channels : \A pc2 \in persona_channels' :
          pc2.id = pc.id =>
              /\ pc2.last_message_at /= pc.last_message_at =>
                     \E i \in MsgIds :
                         /\ messages[i].channel_id = pc.id
                         /\ messages[i].created_at <= pc2.last_message_at
              /\ messages' = messages => pc2.unread_count <= pc.unread_count]_vars

C36_NoClearWhileTyping ==
    [][\A s \in Clients :
          (/\ isTyping[s] /\ isTyping'[s]
           /\ typingTimer[s] /= NULL
           /\ typingTimer'[s] /= NULL)
              => \A r \in requests' \ requests :
                     ~(r.kind = "typingDelete" /\ r.client = s)]_vars

\* C37 (SpecPresence), the claim as stated: from the stopHeartbeat of
\* Messenger's cleanup until Messenger mounts again and calls
\* startHeartbeat, the page sends no presence write: no step that begins
\* and ends with Messenger unmounted adds a write to those in flight.
C37_NoWriteAfterStop ==
    [][(~mounted /\ ~mounted') => presenceWrites' \subseteq presenceWrites]_vars

\* C38 (SpecHeartbeat): in every state at most one interval timer of the
\* page is running, and one is running exactly when heartbeatInterval is
\* set.
C38_AtMostOneInterval ==
    /\ intervalTimers <= 1
    /\ heartbeatInterval <=> intervalTimers = 1

\* C38 witness: startHeartbeat was called for one user and then for the
\* other without a stop between them (the online writes of both are on
\* their way) and one timer is running.
C38_Witness ==
    /\ intervalTimers = 1
    /\ \A u \in Users : \E w \in presenceWrites :
           w.user_id = u /\ w.cause = "startHeartbeat"

====
